---- MODULE Spec2Model ----
(***************************************************************************)
(* Model of the Al Meezan ingestion pipeline (Qatari-law-mcp):             *)
(*   - scripts/lib/fetcher.ts : pacing gate, retry loop, transports        *)
(*   - scripts/ingest.ts (multi-corpus version): crawlLawIndex,            *)
(*     ingestEnglishDocxCorpus, ingestArabicCorpus                         *)
(*   - scripts/lib/parser.ts  : heading state machine and provision dedup  *)
(*     extractDefinitions, parseSectionFromLawArticleLabel and the         *)
(*     LawArticles path of the backfill (parseLawViaLawArticles)           *)
(*   - the backfill script: parseArgs, loadHtmlWithCache, and main with    *)
(*     its selection of targets and its pool of workers                    *)
(* Each subsystem has its own specification over the shared variable       *)
(* tuple; the variables of the other subsystems stay at their initial      *)
(* values.                                                                 *)
(***************************************************************************)
EXTENDS Integers, Sequences, FiniteSets, TLC

(***************************************************************************)
(* Bounds of the model                                                     *)
(***************************************************************************)
NumCallers == 2
MaxRetriesBound == 2
TimeStep == 500
MaxNow == 9000
MaxPages == 3
MaxLimit == 2
MaxParagraphs == 4
MaxListed == 2
MaxLaws == 2
MaxTargets == 4
MaxLoads == 3
MaxCatalog == 3
MaxLines == 3
MaxClauses == 2
MaxDigits == 2
MaxRefs == 2
MaxSeeds == 2
NumWorkers == 2

(***************************************************************************)
(* Program constants                                                       *)
(***************************************************************************)
MIN_DELAY_MS == 1000
DocumentedDelayMs == 1200
DefinitionCap == 50
DefaultMaxRetries == 0
CurlDefaultMaxRetries == 0
DEFAULT_DISCOVERY_YEAR == 2026

VARIABLES
    \* ---- fetcher.ts ----
    now,             \* Date.now()
    lastRequestAt,   \* module variable lastRequestAt
    rateLimitChain,  \* module variable rateLimitChain (id of the tail promise)
    resolved,        \* ids of the chain promises that have been resolved
    nextPromise,     \* next fresh promise id
    pc,              \* position of each caller
    call,            \* per caller: the exported function called and its url
    maxRetries,      \* per caller: the maxRetries argument of fetchWithRetry
    gate,            \* per caller: locals of enforceRateLimit (previous, release)
    loop,            \* per caller: transport and attempt of the running retry loop
    wakeAt,          \* per caller: due time of the pending setTimeout
    bodyFromFetch,   \* per caller: local bodyFromFetch / first body read
    fetchError,      \* per caller: local fetchError
    result,          \* per caller: what the exported function returned or threw
    hist,            \* per caller: history of the requests and backoff sleeps of its call
    lastDispatchAt,  \* history: start time of the latest outbound dispatch (-1: none)
    minGap,          \* history: smallest interval between two dispatch starts so far
    \* ---- ingest.ts, crawlLawIndex ----
    cpc,             \* position of crawlLawIndex
    limit,           \* parameter limit (NullLimit: null)
    probe,           \* discoverYearSummaries: index of the candidate year probed
    years,           \* const years: the discovered year partitions, newest first
    portalPages,     \* per year, the highest pageNumber its first page links to
    yearIdx,         \* the loop over years
    page,            \* the loop over the pages of a year
    maxPage,         \* let maxPage
    byLawId,         \* const byLawId: the Map, in insertion order
    skipReasons,     \* parameter skipReasons
    laws,            \* the catalog returned
    observed,        \* history: the listings passed to addLaw
    fetched,         \* history: the pages fetched, as <<year, page>>
    failedPages,     \* history: the pages whose fetch failed
    \* ---- parser.ts, parseDocxLegislation ----
    ppc,             \* position of parseDocxLegislation
    paragraphs,      \* const paragraphs
    paraIdx,         \* the loop variable i, counted from 1
    currentSection,  \* let currentSection (NullSection: null)
    currentLines,    \* let currentLines
    provisions,      \* const provisions
    dedupIdx,        \* the loop over provisions that fills byRef
    byRef,           \* const byRef: the Map, in insertion order
    deduped,         \* the provisions returned
    \* ---- ingest.ts, main / ingestEnglishDocxCorpus / ingestArabicCorpus ----
    ipc,             \* position of main
    opts,            \* const opts: corpus and arMetadataOnly
    seedIndex,       \* main: let seedIndex
    listedLaws,      \* English: listedLaws.length
    itemIdx,         \* English: the loop over ingestionItems, counted from 1
    currentIndex,    \* English: let currentIndex
    enStats,         \* English: written, skipped, fallbackUsed
    arLaws,          \* Arabic: laws.length of the crawled catalog
    cursor,          \* Arabic: let cursor
    wpc,             \* Arabic: position of each worker
    windex,          \* Arabic: const index of each worker while it loads (else 0)
    arStats,         \* Arabic: written, fetchFailed, textlessWritten, completed
    seedFiles,       \* the seed files on disk
    ingestSkips,     \* main: const skipReasons
    reached,         \* history: the entries whose source was loaded and parsed
    chain,           \* history: per English entry, what became of its sources
    reports,         \* how often main wrote the run manifest and the skip report
    \* ---- scripts/ingest.ts (curated targets), main ----
    legacyPc,        \* position of main
    targets,         \* targets.length
    targetIdx,       \* the loop over targets, counted from 1
    written,         \* let written
    skipped,         \* let skipped
    legacyFiles,     \* the seed files on disk
    outcomes,        \* history: what became of each target
    fatal,           \* history: what made main reject ("": nothing)
    \* ---- ingest.ts, loadTextWithCache / loadBinaryWithCache ----
    loadPc,          \* position of the running load
    cacheOpts,       \* parameter opts: skipFetch and refresh
    cacheFiles,      \* the cache directory: per path the content of the file
    load,            \* the running call: function, localPath, history of the call
    loadCount,       \* history: the number of calls so far
    \* ---- ingest.ts, buildTargets ----
    buildPc,         \* position of buildTargets
    catalogLaws,     \* parameter laws: the entries of the English catalogue
    usedIds,         \* the Set usedIds
    builtIds,        \* the ids of the targets returned by the map callback so far
    \* ---- ingest.ts, main --corpus ar, run twice over one cache directory ----
    rerunPc,         \* position of the running main
    runNo,           \* which run it is
    rrLaws,          \* laws.length of the catalog of this run
    rrCursor,        \* cursor of this run
    rrWpc,           \* per worker: position
    rrWindex,        \* per worker: the index it is processing (0 when none)
    rrFiles,         \* the seed directory
    firstRun,        \* history: the seed directory and the cache the first run left
    startCache,      \* history: the cache directory before the first run
    \* ---- parser.ts, extractDefinitions ----
    defPc,           \* position of extractDefinitions
    defProvisions,   \* parameter provisions
    candIdx,         \* the loop over candidates, counted from 1
    lastIndex,       \* definitionRegex.lastIndex: the clause the next exec starts at
    definitions,     \* const definitions
    seen,            \* const seen
    \* ---- parser.ts, parseSectionFromLawArticleLabel ----
    labelPc,         \* position of parseSectionFromLawArticleLabel
    label,           \* parameter label, a sequence of code points
    spaced,          \* the label after normaliseWhitespace, the argument of normaliseDigits
    clean,           \* const clean
    labelSection,    \* the value returned
    \* ---- backfill, parseLawViaLawArticles ----
    artPc,           \* position of parseLawViaLawArticles
    artMatches,      \* the LawArticles links of the law page: article id and label
    artRefs,         \* const refs
    artIndex,        \* the loop over refs, counted from 0
    artProvisions,   \* const provisions
    \* ---- ingest.ts and backfill, parseArgs; backfill, loadHtmlWithCache ----
    argv,            \* process.argv.slice(2): the flags given
    htmlPc,          \* position of the backfill: parseArgs, then the running load
    htmlArgs,        \* parameter args: skipFetch and refresh
    htmlCache,       \* the cache directories: per cachePath the content of the file
    htmlLoad,        \* the running call: cachePath and the history of the call
    htmlCount,       \* history: the number of calls so far
    \* ---- backfill, main ----
    fillPc,          \* position of main
    fillArgs,        \* const args: limit and fromLawId
    seedDir,         \* data/seed: the records of the .json files, in the order of their names
    limited,         \* const limited: the targets planned in this run
    fillCursor,      \* let cursor
    fworker,         \* per worker: position, and target.file, seed, lawViewError of processTarget
    tally,           \* candidates_total, processed, upgraded, stillTextless, fetchFailed, failures
    startDir,        \* history: the records before the run
    rewrites         \* history: per seed file, how often the run wrote it

fetchVars == <<now, lastRequestAt, rateLimitChain, resolved, nextPromise, pc, call,
               maxRetries, gate, loop, wakeAt, bodyFromFetch, fetchError, result,
               hist, lastDispatchAt, minGap>>

crawlVars == <<cpc, limit, probe, years, portalPages, yearIdx, page, maxPage, byLawId,
               skipReasons, laws, observed, fetched, failedPages>>

parseVars == <<ppc, paragraphs, paraIdx, currentSection, currentLines, provisions,
               dedupIdx, byRef, deduped>>

ingestVars == <<ipc, opts, seedIndex, listedLaws, itemIdx, currentIndex, enStats, arLaws,
                cursor, wpc, windex, arStats, seedFiles, ingestSkips, reached,
                chain, reports>>

legacyVars == <<legacyPc, targets, targetIdx, written, skipped, legacyFiles, outcomes, fatal>>

cacheVars == <<loadPc, cacheOpts, cacheFiles, load, loadCount>>

targetVars == <<buildPc, catalogLaws, usedIds, builtIds>>

rerunVars == <<rerunPc, runNo, rrLaws, rrCursor, rrWpc, rrWindex, rrFiles, firstRun, startCache>>

defVars == <<defPc, defProvisions, candIdx, lastIndex, definitions, seen>>

labelVars == <<labelPc, label, spaced, clean, labelSection>>

articleVars == <<artPc, artMatches, artRefs, artIndex, artProvisions>>

htmlVars == <<argv, htmlPc, htmlArgs, htmlCache, htmlLoad, htmlCount>>

fillVars == <<fillPc, fillArgs, seedDir, limited, fillCursor, fworker, tally, startDir, rewrites>>

backfillVars == <<htmlVars, fillVars>>

\* the subsystems modelled on their own
restVars == <<legacyVars, cacheVars, targetVars, rerunVars, defVars, labelVars, articleVars,
              backfillVars>>

vars == <<fetchVars, crawlVars, parseVars, ingestVars, restVars>>

\* what each subsystem leaves alone
nonFetchVars == <<crawlVars, parseVars, ingestVars, restVars>>
nonCrawlVars == <<fetchVars, parseVars, ingestVars, restVars>>
nonParseVars == <<fetchVars, crawlVars, ingestVars, restVars>>
nonIngestVars == <<fetchVars, crawlVars, parseVars, restVars>>
mainVars == <<fetchVars, crawlVars, parseVars, ingestVars>>
nonLegacyVars == <<mainVars, cacheVars, targetVars, rerunVars, defVars, labelVars, articleVars,
                    backfillVars>>
nonCacheVars == <<mainVars, legacyVars, targetVars, rerunVars, defVars, labelVars, articleVars,
                   backfillVars>>
nonTargetVars == <<mainVars, legacyVars, cacheVars, rerunVars, defVars, labelVars, articleVars,
                    backfillVars>>
nonDefVars == <<mainVars, legacyVars, cacheVars, targetVars, rerunVars, labelVars, articleVars,
                 backfillVars>>
nonLabelVars == <<mainVars, legacyVars, cacheVars, targetVars, rerunVars, defVars, articleVars,
                   backfillVars>>
nonArticleVars == <<mainVars, legacyVars, cacheVars, targetVars, rerunVars, defVars, labelVars,
                    backfillVars>>
nonHtmlVars == <<mainVars, legacyVars, cacheVars, targetVars, rerunVars, defVars, labelVars,
                 articleVars, fillVars>>
nonFillVars == <<mainVars, legacyVars, cacheVars, targetVars, rerunVars, defVars, labelVars,
                 articleVars, htmlVars>>
\* a run of main reads and fills the cache directory
nonRerunVars == <<mainVars, legacyVars, targetVars, defVars, labelVars, articleVars, backfillVars,
                  loadPc, load, loadCount>>

Callers == 1..NumCallers

(***************************************************************************)
(* Response bodies are modelled by the markers the fetcher's regexes look  *)
(* for; the empty set is the empty string.                                 *)
(***************************************************************************)
EmptyBody == {}
ContentBody == {"text"}
ChallengeBody == {"cookiesession", "evalpacker", "LawViewWord.aspx"}
PartialBody == {"cookiesession", "evalpacker", "text"}
Bodies == {EmptyBody, ContentBody, ChallengeBody, PartialBody}
NullBody == {"<null>"}

\* fetcher.ts:65-71
isAntiBotChallengeHtml(html) ==
    IF html = EmptyBody THEN FALSE
    ELSE /\ "cookiesession" \in html
         /\ "evalpacker" \in html
         /\ "LawViewWord.aspx" \in html

(***************************************************************************)
(* Errors are modelled by the set of message fragments that                *)
(* collectErrorMessages would join.                                        *)
(***************************************************************************)
NoError == {}
TlsMessages == {"unable to verify the first certificate"}
HttpError(status) == {"HTTP " \o status}
NetworkError == {"fetch failed"}
TlsError == {"fetch failed", "unable to verify the first certificate"}
CurlTimeout == {"curl: timed out"}
CurlHttpError == {"curl: (22) The requested URL returned error"}
ChallengeBoth == {"anti-bot challenge via fetch", "anti-bot challenge via curl"}

\* fetcher.ts:73-76
isTlsVerificationError(error) == error \cap TlsMessages # {}

\* fetcher.ts:92-95
isCurlTransientError(error) == "curl: timed out" \in error

\* fetcher.ts:108,133,152: Math.pow(2, attempt + 1) * 1000
backoffMs(attempt) == (2 ^ (attempt + 1)) * 1000

Statuses == {"200", "404", "429", "503"}
IsOk(status) == status = "200"
IsRetryStatus(status) == status \in {"429", "503"}


(***************************************************************************)
(* What one dispatch can come back with.                                   *)
(***************************************************************************)
FetchOutcomes ==
    [status : {"200"}, body : Bodies, error : {NoError}]
    \cup [status : {"404", "429", "503"}, body : {ContentBody}, error : {NoError}]
    \cup [status : {"none"}, body : {NullBody}, error : {NetworkError, TlsError}]

CurlOutcomes ==
    [body : Bodies, error : {NoError}]
    \cup [body : {NullBody}, error : {CurlTimeout, CurlHttpError}]

\* execFileSync blocks the event loop for as long as curl runs
CurlDurations == {0, TimeStep}

FetchTag(o) ==
    IF o.error # NoError
    THEN IF isTlsVerificationError(o.error) THEN "tls" ELSE "network"
    ELSE IF IsOk(o.status) /\ isAntiBotChallengeHtml(o.body) THEN "challenge"
    ELSE o.status

CurlTag(o) ==
    IF o.error # NoError
    THEN IF isCurlTransientError(o.error) THEN "transient" ELSE "failed"
    ELSE IF isAntiBotChallengeHtml(o.body) THEN "challenge" ELSE "ok"

Sleep(ms) == [kind |-> "sleep", ms |-> ms, body |-> NullBody, error |-> NoError]
Return(body) == [kind |-> "return", ms |-> 0, body |-> body, error |-> NoError]
Throw(error) == [kind |-> "throw", ms |-> 0, body |-> NullBody, error |-> error]

\* a catch block that treats a TLS verification failure like any other error
fetchWithRetryCatch_RetryTls(attempt, m, error) ==
    IF attempt >= m THEN Throw(error) ELSE Sleep(backoffMs(attempt))

\* fetcher.ts:143-154, the catch block of fetchWithRetry
fetchWithRetryCatch(attempt, m, error) ==
    IF isTlsVerificationError(error) THEN Throw(error)
    ELSE IF attempt >= m THEN Throw(error)
    ELSE Sleep(backoffMs(attempt))

\* fetcher.ts:120-155, one iteration of the loop of fetchWithRetry
fetchWithRetryStep(attempt, m, o) ==
    IF o.error # NoError THEN fetchWithRetryCatch(attempt, m, o.error)
    ELSE IF IsRetryStatus(o.status) /\ attempt < m THEN Sleep(backoffMs(attempt))
    ELSE IF ~IsOk(o.status) THEN fetchWithRetryCatch(attempt, m, HttpError(o.status))
    ELSE Return(o.body)

\* fetcher.ts:100-112, one iteration of the loop of fetchViaCurlWithRetry
fetchViaCurlWithRetryStep(attempt, m, o) ==
    IF o.error = NoError THEN Return(o.body)
    ELSE IF ~isCurlTransientError(o.error) \/ attempt >= m THEN Throw(o.error)
    ELSE Sleep(backoffMs(attempt))

(***************************************************************************)
(* The exported functions, as the step taken when the retry loop of the    *)
(* current stage has returned or thrown (r).  fe is the caller's           *)
(* fetchError.  The step is: finish (ok / err) or go on to another stage.  *)
(***************************************************************************)
Ok(body) == [kind |-> "ok", body |-> body, error |-> NoError, stage |-> "none",
             transport |-> "none", bodyFromFetch |-> NullBody, fetchError |-> NoError]
Err(error) == [kind |-> "err", body |-> NullBody, error |-> error, stage |-> "none",
               transport |-> "none", bodyFromFetch |-> NullBody, fetchError |-> NoError]
Go(stage, transport, bff, fe) ==
    [kind |-> "next", body |-> NullBody, error |-> NoError, stage |-> stage,
     transport |-> transport, bodyFromFetch |-> bff, fetchError |-> fe]

\* a LawViewWord branch that returns whatever the second transport delivers
fetchTextLawView_Unchecked(stage, r) ==
    IF r.kind = "throw" THEN Err(r.error)
    ELSE IF stage = "lvw_curl" /\ isAntiBotChallengeHtml(r.body)
    THEN Go("lvw_fetch", "fetch", NullBody, NoError)
    ELSE Ok(r.body)

\* fetcher.ts:164-177, the LawViewWord branch of fetchTextFromUrl
fetchTextLawView(stage, r) ==
    IF stage = "lvw_curl" THEN
        IF r.kind = "throw" THEN Err(r.error)
        ELSE IF ~isAntiBotChallengeHtml(r.body) THEN Ok(r.body)
        ELSE Go("lvw_fetch", "fetch", NullBody, NoError)
    ELSE
        IF r.kind = "throw" THEN Err(r.error)
        ELSE IF ~isAntiBotChallengeHtml(r.body) THEN Ok(r.body)
        ELSE Err(ChallengeBoth)

\* fetcher.ts:179-207, the general branch of fetchTextFromUrl
fetchTextGeneral(stage, r, fe) ==
    IF stage = "txt_fetch" THEN
        IF r.kind = "return" /\ r.body # EmptyBody /\ ~isAntiBotChallengeHtml(r.body)
        THEN Ok(r.body)
        ELSE Go("txt_curl", "curl", r.body, r.error)
    ELSE
        IF r.kind = "throw" THEN Err(r.error)
        ELSE IF isAntiBotChallengeHtml(r.body) THEN Err(ChallengeBoth \cup fe)
        ELSE Ok(r.body)

\* fetcher.ts:160-207
fetchTextFromUrl(stage, r, fe) ==
    IF stage \in {"lvw_curl", "lvw_fetch"} THEN fetchTextLawView(stage, r)
    ELSE fetchTextGeneral(stage, r, fe)

\* a binary fetch that goes to the other transport after any failure
fetchBinaryFromUrl_AnyFailure(stage, r) ==
    IF stage = "bin_fetch" THEN
        IF r.kind = "return" THEN Ok(r.body)
        ELSE Go("bin_curl", "curl", NullBody, NoError)
    ELSE
        IF r.kind = "return" THEN Ok(r.body) ELSE Err(r.error)

\* fetcher.ts:209-221
fetchBinaryFromUrl(stage, r) ==
    IF stage = "bin_fetch" THEN
        IF r.kind = "return" THEN Ok(r.body)
        ELSE IF ~isTlsVerificationError(r.error) THEN Err(r.error)
        ELSE Go("bin_curl", "curl", NullBody, NoError)
    ELSE
        IF r.kind = "return" THEN Ok(r.body) ELSE Err(r.error)

CallerStep(p, r) ==
    IF call[p].fn = "text" THEN fetchTextFromUrl(loop[p].stage, r, fetchError[p])
    ELSE fetchBinaryFromUrl(loop[p].stage, r)


(***************************************************************************)
(* State changes shared by the actions                                     *)
(***************************************************************************)
NoHist == [fetches |-> 0, lastFetch |-> "none", curls |-> 0, lastCurl |-> "none",
           waits |-> <<>>]

\* history: a request of caller p came back with outcome tag out, and the loop
\* took step r
Record(h, transport, out, r) ==
    [fetches |-> IF transport = "fetch" THEN h.fetches + 1 ELSE h.fetches,
     lastFetch |-> IF transport = "fetch" THEN out ELSE h.lastFetch,
     curls |-> IF transport = "curl" THEN h.curls + 1 ELSE h.curls,
     lastCurl |-> IF transport = "curl" THEN out ELSE h.lastCurl,
     waits |-> IF r.kind = "sleep" THEN Append(h.waits, r.ms) ELSE h.waits]

\* a gate in which no caller waits for the one before it
EnterGate_NoChain(p, stage, transport, attempt) ==
    /\ loop' = [loop EXCEPT ![p] = [stage |-> stage, transport |-> transport,
                                    attempt |-> attempt]]
    /\ gate' = [gate EXCEPT ![p] = [previous |-> 0, release |-> nextPromise]]
    /\ rateLimitChain' = nextPromise
    /\ nextPromise' = nextPromise + 1
    /\ pc' = [pc EXCEPT ![p] = "await_previous"]

\* fetcher.ts:23-29, enforceRateLimit up to "await previous", entered for the
\* retry loop of a new stage (attempt 0) or again by a curl retry
EnterGate(p, stage, transport, attempt) ==
    /\ loop' = [loop EXCEPT ![p] = [stage |-> stage, transport |-> transport,
                                    attempt |-> attempt]]
    /\ gate' = [gate EXCEPT ![p] = [previous |-> rateLimitChain,
                                    release |-> nextPromise]]
    /\ rateLimitChain' = nextPromise
    /\ nextPromise' = nextPromise + 1
    /\ pc' = [pc EXCEPT ![p] = "await_previous"]

\* a gate that is released only when the request has come back (never, here)
PassGate_HoldsGate(p) ==
    /\ lastRequestAt' = now
    /\ resolved' = resolved
    /\ pc' = [pc EXCEPT ![p] = "dispatch"]

\* fetcher.ts:36-39, lastRequestAt = Date.now() and release()
PassGate(p) ==
    /\ lastRequestAt' = now
    /\ resolved' = resolved \cup {gate[p].release}
    /\ pc' = [pc EXCEPT ![p] = "dispatch"]

\* the retry loop of caller p produced step r at time t: sleep before the next
\* attempt, or hand the return value / exception to the exported function
Continue(p, r, t) ==
    IF r.kind = "sleep" THEN
        /\ pc' = [pc EXCEPT ![p] = "sleep_backoff"]
        /\ wakeAt' = [wakeAt EXCEPT ![p] = t + r.ms]
        /\ UNCHANGED <<rateLimitChain, nextPromise, gate, loop, bodyFromFetch,
                       fetchError, result>>
    ELSE LET c == CallerStep(p, r) IN
        IF c.kind = "next" THEN
            /\ EnterGate(p, c.stage, c.transport, 0)
            /\ bodyFromFetch' = [bodyFromFetch EXCEPT ![p] = c.bodyFromFetch]
            /\ fetchError' = [fetchError EXCEPT ![p] = c.fetchError]
            /\ UNCHANGED <<wakeAt, result>>
        ELSE
            /\ pc' = [pc EXCEPT ![p] = "done"]
            /\ result' = [result EXCEPT ![p] =
                   [ok |-> c.kind = "ok", body |-> c.body, error |-> c.error]]
            /\ UNCHANGED <<rateLimitChain, nextPromise, gate, loop, wakeAt,
                           bodyFromFetch, fetchError>>

\* a continuation that is queued as a microtask: the event loop runs it before
\* it takes the next timer or I/O callback
Microtask(p) ==
    \/ pc[p] \in {"dispatch", "done"}
    \/ pc[p] = "await_previous" /\ gate[p].previous \in resolved

\* the event loop is between tasks: the microtask queue is empty
EventLoopTurn == \A p \in Callers : ~Microtask(p)

\* a timer that is due; the clock does not advance past it while the event loop
\* is idle (only a blocking execFileSync delays it)
TimerDue(p) == pc[p] \in {"sleep_gate", "sleep_backoff"} /\ now >= wakeAt[p]

\* history of the dispatch starts: an outbound request starts at time now
RecordDispatch ==
    /\ lastDispatchAt' = now
    /\ minGap' = IF lastDispatchAt >= 0 /\ now - lastDispatchAt < minGap
                 THEN now - lastDispatchAt ELSE minGap

(***************************************************************************)
(* Actions of the fetcher                                                  *)
(***************************************************************************)
\* a worker calls fetchTextFromUrl(url) or fetchBinaryFromUrl(url); the code runs
\* synchronously into enforceRateLimit of the first transport
Call(p) ==
    /\ pc[p] = "idle"
    /\ \A q \in Callers : q < p => pc[q] # "idle"   \* the workers are started in order
    /\ \E c \in {[fn |-> "text", lawView |-> TRUE], [fn |-> "text", lawView |-> FALSE],
                 [fn |-> "binary", lawView |-> FALSE]} :
        /\ call' = [call EXCEPT ![p] = c]
        /\ IF c.fn = "binary" THEN EnterGate(p, "bin_fetch", "fetch", 0)
           ELSE IF c.lawView THEN EnterGate(p, "lvw_curl", "curl", 0)
           ELSE EnterGate(p, "txt_fetch", "fetch", 0)
    /\ UNCHANGED <<now, lastRequestAt, resolved, maxRetries, wakeAt, bodyFromFetch,
                   fetchError, result, hist, lastDispatchAt, minGap>>
    /\ UNCHANGED nonFetchVars

\* a gate that lets every caller through at once
remainingDelay_NoWait(t, last) == 0

\* fetcher.ts:31-35, how long the caller admitted at time t has to sleep
remainingDelay(t, last) ==
    LET elapsed == t - last IN
    IF elapsed < MIN_DELAY_MS THEN MIN_DELAY_MS - elapsed ELSE 0

\* fetcher.ts:29-36, "await previous" resumes
GateAdmit(p) ==
    /\ pc[p] = "await_previous"
    /\ gate[p].previous \in resolved
    /\ LET delay == remainingDelay(now, lastRequestAt) IN
        IF delay > 0 THEN
            /\ pc' = [pc EXCEPT ![p] = "sleep_gate"]
            /\ wakeAt' = [wakeAt EXCEPT ![p] = now + delay]
            /\ UNCHANGED <<lastRequestAt, resolved>>
        ELSE
            /\ PassGate(p)
            /\ UNCHANGED wakeAt
    /\ UNCHANGED <<now, rateLimitChain, nextPromise, call, maxRetries, gate, loop,
                   bodyFromFetch, fetchError, result, hist, lastDispatchAt, minGap>>
    /\ UNCHANGED nonFetchVars

\* fetcher.ts:18-20, the setTimeout of sleep() fires: inside enforceRateLimit the
\* caller passes the gate; after a backoff the loop goes to its next attempt
\* (fetchWithRetry sends again, fetchViaCurlWithRetry re-enters the gate)
TimerFire(p) ==
    /\ EventLoopTurn
    /\ TimerDue(p)
    /\ IF pc[p] = "sleep_gate" THEN
            /\ PassGate(p)
            /\ UNCHANGED <<rateLimitChain, nextPromise, gate, loop>>
       ELSE IF loop[p].transport = "fetch" THEN
            /\ pc' = [pc EXCEPT ![p] = "dispatch"]
            /\ loop' = [loop EXCEPT ![p].attempt = @ + 1]
            /\ UNCHANGED <<lastRequestAt, resolved, rateLimitChain, nextPromise, gate>>
       ELSE
            /\ EnterGate(p, loop[p].stage, "curl", loop[p].attempt + 1)
            /\ UNCHANGED <<lastRequestAt, resolved>>
    /\ UNCHANGED <<now, call, maxRetries, wakeAt, bodyFromFetch, fetchError, result,
                   hist, lastDispatchAt, minGap>>
    /\ UNCHANGED nonFetchVars

\* fetcher.ts:122-130, fetch() is started; the request is in flight
DispatchFetch(p) ==
    /\ pc[p] = "dispatch"
    /\ loop[p].transport = "fetch"
    /\ RecordDispatch
    /\ pc' = [pc EXCEPT ![p] = "inflight"]
    /\ UNCHANGED <<now, lastRequestAt, rateLimitChain, resolved, nextPromise, call,
                   maxRetries, gate, loop, wakeAt, bodyFromFetch, fetchError, result,
                   hist>>
    /\ UNCHANGED nonFetchVars

\* fetcher.ts:122-155, fetch() settles and the loop iteration of fetchWithRetry
\* runs, then the exported function up to its next await
FetchSettle(p) ==
    /\ EventLoopTurn
    /\ pc[p] = "inflight"
    /\ \E o \in FetchOutcomes :
        LET r == fetchWithRetryStep(loop[p].attempt, maxRetries[p], o) IN
        /\ hist' = [hist EXCEPT ![p] = Record(@, "fetch", FetchTag(o), r)]
        /\ Continue(p, r, now)
    /\ UNCHANGED <<now, lastRequestAt, resolved, call, maxRetries, lastDispatchAt, minGap>>
    /\ UNCHANGED nonFetchVars

\* fetcher.ts:78-90 and 100-112, execFileSync('curl', ...) runs to completion
\* while the event loop is blocked, then the loop iteration of
\* fetchViaCurlWithRetry and the exported function up to its next await
DispatchCurl(p) ==
    /\ pc[p] = "dispatch"
    /\ loop[p].transport = "curl"
    /\ \E o \in CurlOutcomes, d \in CurlDurations :
        LET r == fetchViaCurlWithRetryStep(loop[p].attempt, CurlDefaultMaxRetries, o) IN
        /\ now + d <= MaxNow
        /\ now' = now + d
        /\ RecordDispatch
        /\ hist' = [hist EXCEPT ![p] = Record(@, "curl", CurlTag(o), r)]
        /\ Continue(p, r, now + d)
    /\ UNCHANGED <<lastRequestAt, resolved, call, maxRetries>>
    /\ UNCHANGED nonFetchVars

\* ingest.ts:740,758 "await fetchTextFromUrl(url)" resumes in the worker with
\* the value or the exception; the frame of the call is gone
Resume(p) ==
    /\ pc[p] = "done"
    /\ pc' = [pc EXCEPT ![p] = "finished"]
    /\ call' = [call EXCEPT ![p] = [fn |-> "none", lawView |-> FALSE]]
    /\ gate' = [gate EXCEPT ![p] = [previous |-> 0, release |-> 0]]
    /\ loop' = [loop EXCEPT ![p] = [stage |-> "none", transport |-> "none",
                                    attempt |-> 0]]
    /\ wakeAt' = [wakeAt EXCEPT ![p] = 0]
    /\ bodyFromFetch' = [bodyFromFetch EXCEPT ![p] = NullBody]
    /\ fetchError' = [fetchError EXCEPT ![p] = NoError]
    /\ result' = [result EXCEPT ![p] = [ok |-> FALSE, body |-> NullBody,
                                        error |-> NoError]]
    /\ hist' = [hist EXCEPT ![p] = NoHist]
    /\ UNCHANGED <<now, lastRequestAt, rateLimitChain, resolved, nextPromise,
                   maxRetries, lastDispatchAt, minGap>>
    /\ UNCHANGED nonFetchVars

PendingTimers == {wakeAt[p] : p \in {q \in Callers : pc[q] \in {"sleep_gate", "sleep_backoff"}}}

\* time passes while the event loop is idle: up to the next timer, or by one step
\* while the time since lastRequestAt is still below the minimum delay (once it
\* is not, and until a timer is due, the passing of time changes nothing the
\* fetcher reads)
Tick ==
    /\ EventLoopTurn
    /\ \A p \in Callers : ~TimerDue(p)
    /\ \E p \in Callers : pc[p] # "finished"
    /\ LET step == now + TimeStep
           nextTimer == CHOOSE t \in PendingTimers : \A u \in PendingTimers : t <= u
           times == (IF PendingTimers # {} THEN {nextTimer} ELSE {})
                    \cup (IF /\ now - lastRequestAt < MIN_DELAY_MS
                             /\ PendingTimers # {} => step < nextTimer
                          THEN {step} ELSE {}) IN
        \E t \in times :
            /\ t <= MaxNow
            /\ now' = t
    /\ UNCHANGED <<lastRequestAt, rateLimitChain, resolved, nextPromise, pc, call,
                   maxRetries, gate, loop, wakeAt, bodyFromFetch, fetchError, result,
                   hist, lastDispatchAt, minGap>>
    /\ UNCHANGED nonFetchVars

FetchInit(m, active) ==
    /\ now = MIN_DELAY_MS
    /\ lastRequestAt = 0
    /\ rateLimitChain = 0
    /\ resolved = {0}
    /\ nextPromise = 1
    /\ pc = [p \in Callers |-> IF p \in active THEN "idle" ELSE "finished"]
    /\ call = [p \in Callers |-> [fn |-> "none", lawView |-> FALSE]]
    /\ maxRetries = [p \in Callers |-> m]
    /\ gate = [p \in Callers |-> [previous |-> 0, release |-> 0]]
    /\ loop = [p \in Callers |-> [stage |-> "none", transport |-> "none", attempt |-> 0]]
    /\ wakeAt = [p \in Callers |-> 0]
    /\ bodyFromFetch = [p \in Callers |-> NullBody]
    /\ fetchError = [p \in Callers |-> NoError]
    /\ result = [p \in Callers |-> [ok |-> FALSE, body |-> NullBody, error |-> NoError]]
    /\ hist = [p \in Callers |-> NoHist]
    /\ lastDispatchAt = -1
    /\ minGap = MaxNow

\* the fetcher at rest, for the specifications of the other subsystems
FetchIdle == FetchInit(DefaultMaxRetries, {})

(***************************************************************************)
(* ingest.ts: crawlLawIndex.  A listing page is modelled by the sequence   *)
(* of law links parseLawsByYearPage finds in it, a law id by its digits.   *)
(***************************************************************************)
NullLimit == 0
PortalYears == {2019, 2021}
Link(id, title) == [law_id |-> id, title |-> title]

\* the listing pages the portal serves: an empty listing, single laws, a law
\* under two spellings of its id, a law linked twice on one page, a link without
\* a title
PageLinks ==
    { <<>>,
      <<Link(<<7>>, "Law A")>>,
      <<Link(<<1, 2>>, "Law B"), Link(<<7>>, "Law A (Amended)")>>,
      <<Link(<<0, 7>>, "Law A"), Link(<<3>>, "Law C (Amended)")>>,
      <<Link(<<3>>, "Law C"), Link(<<3>>, "Law C (Amended)")>>,
      <<Link(<<1, 2>>, ""), Link(<<1, 2>>, "Law B")>> }

\* Number.parseInt(law_id, 10)
RECURSIVE parseInt(_)
parseInt(digits) ==
    IF digits = <<>> THEN 0
    ELSE 10 * parseInt(SubSeq(digits, 1, Len(digits) - 1)) + digits[Len(digits)]

\* ingest.ts:779-808, parseYearSidebar returns the years newest first
RECURSIVE SortedDesc(_)
SortedDesc(S) ==
    IF S = {} THEN <<>>
    ELSE LET top == CHOOSE y \in S : \A z \in S : z <= y IN
         <<top>> \o SortedDesc(S \ {top})

\* ingest.ts:866-873, the candidate years of discoverYearSummaries, deduplicated
RECURSIVE Unique(_)
Unique(q) ==
    IF q = <<>> THEN <<>>
    ELSE LET front == Unique(SubSeq(q, 1, Len(q) - 1))
             last == q[Len(q)] IN
         IF \E i \in DOMAIN front : front[i] = last THEN front ELSE Append(front, last)

uniqueCandidates ==
    Unique(<<DEFAULT_DISCOVERY_YEAR, DEFAULT_DISCOVERY_YEAR - 1, 2025, 2024>>)

\* ingest.ts:822-864, parseLawsByYearPage: the first link of each law id, unless
\* its title is empty
RECURSIVE parseLawsByYearPage(_, _)
parseLawsByYearPage(links, year) ==
    IF links = <<>> THEN <<>>
    ELSE LET front == SubSeq(links, 1, Len(links) - 1)
             last == links[Len(links)]
             list == parseLawsByYearPage(front, year) IN
         IF \E i \in DOMAIN front : front[i].law_id = last.law_id THEN list
         ELSE IF last.title = "" THEN list
         ELSE Append(list, [law_id |-> last.law_id, title |-> last.title, year |-> year])

Has(m, id) == \E i \in DOMAIN m : m[i].law_id = id

Min(a, b) == IF a <= b THEN a ELSE b

\* an addLaw that takes every new id
addLaw_NoLimit(m, law, lim) ==
    IF ~Has(m, law.law_id) THEN Append(m, law)
    ELSE [i \in DOMAIN m |->
            IF m[i].law_id = law.law_id
            THEN [law_id |-> m[i].law_id,
                  title |-> IF Len(law.title) > Len(m[i].title) THEN law.title
                            ELSE m[i].title,
                  year |-> Min(law.year, m[i].year)]
            ELSE m[i]]

\* an addLaw that replaces the stored entry by the new listing
addLaw_Overwrite(m, law, lim) ==
    IF lim # NullLimit /\ Len(m) >= lim /\ ~Has(m, law.law_id) THEN m
    ELSE IF ~Has(m, law.law_id) THEN Append(m, law)
    ELSE [i \in DOMAIN m |-> IF m[i].law_id = law.law_id THEN law ELSE m[i]]

\* ingest.ts:902-922, addLaw on the Map m
addLaw(m, law, lim) ==
    IF lim # NullLimit /\ Len(m) >= lim /\ ~Has(m, law.law_id) THEN m
    ELSE IF ~Has(m, law.law_id) THEN Append(m, law)
    ELSE [i \in DOMAIN m |->
            IF m[i].law_id = law.law_id
            THEN LET existing == m[i]
                     richerTitle == IF Len(law.title) > Len(existing.title)
                                    THEN law.title ELSE existing.title
                     earlierYear == Min(law.year, existing.year) IN
                 [law_id |-> existing.law_id, title |-> richerTitle, year |-> earlierYear]
            ELSE m[i]]

\* ingest.ts:937,955, list.forEach(addLaw)
RECURSIVE addAll(_, _, _)
addAll(m, list, lim) ==
    IF list = <<>> THEN m
    ELSE addAll(addLaw(m, list[1], lim), Tail(list), lim)

\* a catalog returned in the insertion order of the Map
sortLaws_Unsorted(m) == m

\* ingest.ts:969-971, Array.from(byLawId.values()).sort(by parseInt(law_id)); the
\* sort is stable
RECURSIVE sortLaws(_)
sortLaws(m) ==
    IF m = <<>> THEN <<>>
    ELSE LET front == sortLaws(SubSeq(m, 1, Len(m) - 1))
             last == m[Len(m)]
             key == parseInt(last.law_id)
             before == {i \in DOMAIN front : parseInt(front[i].law_id) <= key}
             k == IF before = {} THEN 0 ELSE CHOOSE i \in before : \A j \in before : j <= i IN
         SubSeq(front, 1, k) \o <<last>> \o SubSeq(front, k + 1, Len(front))

LimitReached(m) == limit # NullLimit /\ Len(m) >= limit

\* a catch block that lets the failure of a later page end the year
pageFailureStep_SkipYear(pg) == "next_year"

\* ingest.ts:938-944 and 956-961, the catch blocks of the page fetches: the
\* failure of page 1 continues with the next year, that of a later page with
\* the next page
pageFailureStep(pg) == IF pg = 1 THEN "next_year" ELSE "next_page"

\* ingest.ts:924-972, where the loops go once page pg of year number yi is dealt
\* with and the Map is m; step is "next_page", "next_year" or "throw"
CrawlGoOn(m, yi, pg, mp, step) ==
    IF step = "throw" THEN
        /\ cpc' = "failed"
        /\ UNCHANGED <<yearIdx, page, maxPage, laws>>
    ELSE IF step = "next_page" /\ pg + 1 <= mp /\ ~LimitReached(m) THEN
        /\ cpc' = "page"
        /\ page' = pg + 1
        /\ maxPage' = mp
        /\ UNCHANGED <<yearIdx, laws>>
    ELSE IF yi + 1 <= Len(years) /\ ~LimitReached(m) THEN
        /\ cpc' = "year"
        /\ yearIdx' = yi + 1
        /\ page' = 1
        /\ maxPage' = 1
        /\ UNCHANGED laws
    ELSE
        /\ cpc' = "done"
        /\ laws' = sortLaws(m)
        /\ UNCHANGED <<yearIdx, page, maxPage>>

\* ingest.ts:866-891 and 899, discoverYearSummaries probes the first page of the
\* next candidate year: the fetch fails or the sidebar is empty (next candidate,
\* or the crawl throws after the last one), or the sidebar lists the years
CrawlDiscover ==
    /\ cpc = "discover"
    /\ \/ /\ IF probe < Len(uniqueCandidates)
             THEN probe' = probe + 1 /\ cpc' = "discover"
             ELSE probe' = probe /\ cpc' = "failed"
          /\ UNCHANGED <<years, portalPages, yearIdx>>
       \/ \E ys \in (SUBSET PortalYears) \ {{}} :
          \E pp \in [PortalYears -> 1..MaxPages] :
            /\ years' = SortedDesc(ys)
            /\ portalPages' = pp
            /\ cpc' = "year"
            /\ yearIdx' = 1
            /\ probe' = probe
    /\ UNCHANGED <<limit, page, maxPage, byLawId, skipReasons, laws, observed, fetched,
                   failedPages>>
    /\ UNCHANGED nonCrawlVars

\* ingest.ts:929-944, the first page of the next year is loaded, or fails
CrawlFirstPage ==
    /\ cpc = "year"
    /\ LET year == years[yearIdx] IN
       \/ \E links \in PageLinks :
            LET firstLaws == parseLawsByYearPage(links, year)
                m == addAll(byLawId, firstLaws, limit) IN
            /\ byLawId' = m
            /\ observed' = observed \cup {firstLaws[i] : i \in DOMAIN firstLaws}
            /\ fetched' = fetched \cup {<<year, 1>>}
            /\ CrawlGoOn(m, yearIdx, 1, portalPages[year], "next_page")
            /\ UNCHANGED <<skipReasons, failedPages>>
       \/ /\ skipReasons' = Append(skipReasons, <<year, 1>>)
          /\ failedPages' = failedPages \cup {<<year, 1>>}
          /\ CrawlGoOn(byLawId, yearIdx, 1, 1, pageFailureStep(1))
          /\ UNCHANGED <<byLawId, observed, fetched>>
    /\ UNCHANGED <<limit, probe, years, portalPages>>
    /\ UNCHANGED nonCrawlVars

\* ingest.ts:946-962, a later page of the year is loaded, or fails
CrawlNextPage ==
    /\ cpc = "page"
    /\ LET year == years[yearIdx] IN
       \/ \E links \in PageLinks :
            LET pageLaws == parseLawsByYearPage(links, year)
                m == addAll(byLawId, pageLaws, limit) IN
            /\ byLawId' = m
            /\ observed' = observed \cup {pageLaws[i] : i \in DOMAIN pageLaws}
            /\ fetched' = fetched \cup {<<year, page>>}
            /\ CrawlGoOn(m, yearIdx, page, maxPage, "next_page")
            /\ UNCHANGED <<skipReasons, failedPages>>
       \/ /\ skipReasons' = Append(skipReasons, <<year, page>>)
          /\ failedPages' = failedPages \cup {<<year, page>>}
          /\ CrawlGoOn(byLawId, yearIdx, page, maxPage, pageFailureStep(page))
          /\ UNCHANGED <<byLawId, observed, fetched>>
    /\ UNCHANGED <<limit, probe, years, portalPages>>
    /\ UNCHANGED nonCrawlVars

CrawlInit(start, limits) ==
    /\ cpc = start
    /\ limit \in limits
    /\ probe = 1
    /\ years = <<>>
    /\ portalPages = [y \in PortalYears |-> 1]
    /\ yearIdx = 1
    /\ page = 1
    /\ maxPage = 1
    /\ byLawId = <<>>
    /\ skipReasons = <<>>
    /\ laws = <<>>
    /\ observed = {}
    /\ fetched = {}
    /\ failedPages = {}

\* crawlLawIndex before it is called, for the specifications of the other
\* subsystems
CrawlIdle == CrawlInit("idle", {NullLimit})

(***************************************************************************)
(* parser.ts, parseDocxLegislation: the heading state machine over the     *)
(* cleaned paragraphs of the document, and the dedup by provision_ref.     *)
(***************************************************************************)
NullSection == ""
NoMatch == [section |-> NullSection, inlineText |-> ""]

\* the lines of the documented example, and lines to put around them
ExampleLines ==
    { "Article (5)", "Whoever violates this law shall be penalized.", "Second paragraph",
      "Article", "(1)" }

\* the cleaned paragraphs a document is made of
ParagraphTexts ==
    { "Article (1)", "Article 2A - Scope", "article (2a)", "Article", "(1)",
      "1 - Scope", "Text", "More text of the article" }

RECURSIVE SeqsUpTo(_, _)
SeqsUpTo(S, n) ==
    IF n = 0 THEN {<<>>}
    ELSE LET shorter == SeqsUpTo(S, n - 1) IN
         shorter \cup {Append(q, x) : q \in {r \in shorter : Len(r) = n - 1}, x \in S}

\* parser.ts:241 and 264, the match of
\* /^Article\s*\(?\s*([0-9]+[A-Za-z]?)\s*\)?(?:\s*[-:.]\s*(.*))?$/i on the lines
\* that can be built from ParagraphTexts: groups 1 and 2, the latter trimmed
articleRegex(line) ==
    CASE line = "Article (1)" -> [section |-> "1", inlineText |-> ""]
      [] line = "Article (5)" -> [section |-> "5", inlineText |-> ""]
      [] line = "Article 2A - Scope" -> [section |-> "2A", inlineText |-> "Scope"]
      [] line = "article (2a)" -> [section |-> "2a", inlineText |-> ""]
      [] line = "Article 1 - Scope" -> [section |-> "1", inlineText |-> "Scope"]
      [] OTHER -> NoMatch

\* parser.ts:232-235, /^\(?\s*([0-9]+[A-Za-z]?)\s*\)?$/
parseSectionToken(value) == IF value = "(1)" THEN "1" ELSE NullSection

\* parser.ts:253, /^Article\s*\(?$/i or /^Article$/i
IsArticleWord(line) == line = "Article"

\* parser.ts:237-276; lines[index] beyond the end reads as ''
matchArticleHeading(lines, index) ==
    LET line == IF index <= Len(lines) THEN lines[index] ELSE ""
        next == IF index + 1 <= Len(lines) THEN lines[index + 1] ELSE ""
        singleLine == articleRegex(line)
        token == parseSectionToken(next)
        combinedLine == articleRegex(line \o " " \o next) IN
    IF line = "" THEN [section |-> NullSection, consumed |-> 0, inlineText |-> ""]
    ELSE IF singleLine # NoMatch
    THEN [section |-> singleLine.section, consumed |-> 1, inlineText |-> singleLine.inlineText]
    ELSE IF next # "" /\ IsArticleWord(line) /\ token # NullSection
    THEN [section |-> token, consumed |-> 2, inlineText |-> ""]
    ELSE IF next # "" /\ combinedLine # NoMatch /\ Len(line) <= 40 /\ Len(next) <= 40
    THEN [section |-> combinedLine.section, consumed |-> 2,
          inlineText |-> combinedLine.inlineText]
    ELSE [section |-> NullSection, consumed |-> 0, inlineText |-> ""]

\* String.prototype.toLowerCase on the section tokens
toLowerCase(section) == IF section = "2A" THEN "2a" ELSE section

\* parser.ts:278-281; a section token holds letters and digits only
makeProvisionRef(section) == "art" \o toLowerCase(section)

\* currentLines.join('\n'); the paragraphs hold no blank lines and are trimmed
RECURSIVE join(_)
join(lines) ==
    IF lines = <<>> THEN ""
    ELSE IF Len(lines) = 1 THEN lines[1]
    ELSE lines[1] \o "\n" \o join(Tail(lines))

\* a flush that keeps the first line of the article only
flushCurrent_FirstLine(provs, section, lines) ==
    IF section = NullSection \/ join(lines) = "" THEN provs
    ELSE Append(provs, [provision_ref |-> makeProvisionRef(section),
                        section |-> section,
                        title |-> "Article (" \o section \o ")",
                        content |-> lines[1]])

\* parser.ts:328-347, flushCurrent: the provisions after it
flushCurrent(provs, section, lines) ==
    IF section = NullSection \/ join(lines) = "" THEN provs
    ELSE Append(provs, [provision_ref |-> makeProvisionRef(section),
                        section |-> section,
                        title |-> "Article (" \o section \o ")",
                        content |-> join(lines)])

\* a dedup in which the first provision of a ref stays
replaces_Never(provision, existing) == FALSE

\* parser.ts:375, whether provision takes the place of the existing one
replaces(provision, existing) == Len(provision.content) > Len(existing.content)

\* a loop that collects the lines in front of the first heading as well
ParseParagraph_KeepsFrontMatter ==
    /\ ppc = "loop"
    /\ paraIdx <= Len(paragraphs)
    /\ LET heading == matchArticleHeading(paragraphs, paraIdx) IN
       IF heading.section # NullSection THEN
           /\ provisions' = flushCurrent(provisions, currentSection, currentLines)
           /\ currentSection' = heading.section
           /\ currentLines' = IF heading.inlineText # "" THEN <<heading.inlineText>>
                              ELSE IF currentSection = NullSection THEN currentLines
                              ELSE <<>>
           /\ paraIdx' = paraIdx + heading.consumed
       ELSE
           /\ currentLines' = Append(currentLines, paragraphs[paraIdx])
           /\ paraIdx' = paraIdx + 1
           /\ UNCHANGED <<provisions, currentSection>>
    /\ UNCHANGED <<ppc, paragraphs, dedupIdx, byRef, deduped>>
    /\ UNCHANGED nonParseVars

\* parser.ts:349-367, one iteration of the loop over the paragraphs
ParseParagraph ==
    /\ ppc = "loop"
    /\ paraIdx <= Len(paragraphs)
    /\ LET heading == matchArticleHeading(paragraphs, paraIdx) IN
       IF heading.section # NullSection THEN
           /\ provisions' = flushCurrent(provisions, currentSection, currentLines)
           /\ currentSection' = heading.section
           /\ currentLines' = IF heading.inlineText # "" THEN <<heading.inlineText>>
                              ELSE <<>>
           /\ paraIdx' = paraIdx + heading.consumed
       ELSE
           /\ currentLines' = IF currentSection = NullSection THEN currentLines
                              ELSE Append(currentLines, paragraphs[paraIdx])
           /\ paraIdx' = paraIdx + 1
           /\ UNCHANGED <<provisions, currentSection>>
    /\ UNCHANGED <<ppc, paragraphs, dedupIdx, byRef, deduped>>
    /\ UNCHANGED nonParseVars

\* parser.ts:369, the flushCurrent() after the loop
ParseFlush ==
    /\ ppc = "loop"
    /\ paraIdx > Len(paragraphs)
    /\ provisions' = flushCurrent(provisions, currentSection, currentLines)
    /\ currentSection' = NullSection
    /\ currentLines' = <<>>
    /\ ppc' = "dedupe"
    /\ UNCHANGED <<paragraphs, paraIdx, dedupIdx, byRef, deduped>>
    /\ UNCHANGED nonParseVars

\* parser.ts:373-378, one iteration of the loop over the provisions
DedupeProvision ==
    /\ ppc = "dedupe"
    /\ dedupIdx <= Len(provisions)
    /\ LET provision == provisions[dedupIdx]
           at == {k \in DOMAIN byRef : byRef[k].provision_ref = provision.provision_ref} IN
       byRef' = IF at = {} THEN Append(byRef, provision)
                ELSE [k \in DOMAIN byRef |->
                        IF k \in at /\ replaces(provision, byRef[k]) THEN provision
                        ELSE byRef[k]]
    /\ dedupIdx' = dedupIdx + 1
    /\ UNCHANGED <<ppc, paragraphs, paraIdx, currentSection, currentLines, provisions,
                   deduped>>
    /\ UNCHANGED nonParseVars

\* parser.ts:380-383
ParseReturn ==
    /\ ppc = "dedupe"
    /\ dedupIdx > Len(provisions)
    /\ deduped' = byRef
    /\ ppc' = "done"
    /\ UNCHANGED <<paragraphs, paraIdx, currentSection, currentLines, provisions,
                   dedupIdx, byRef>>
    /\ UNCHANGED nonParseVars

ParseInit(start, documents) ==
    /\ ppc = start
    /\ paragraphs \in documents
    /\ paraIdx = 1
    /\ currentSection = NullSection
    /\ currentLines = <<>>
    /\ provisions = <<>>
    /\ dedupIdx = 1
    /\ byRef = <<>>
    /\ deduped = <<>>

\* parseDocxLegislation before it is called
ParseIdle == ParseInit("idle", {<<>>})

(***************************************************************************)
(* ingest.ts, main: the English DOCX corpus is ingested one law after the  *)
(* other, the Arabic corpus by a pool of workers that share a cursor.      *)
(* A parse result is modelled by its number of provisions.                 *)
(***************************************************************************)
Workers == 1..NumWorkers
Corpora == {"all", "en", "ar"}
ProvisionCounts == {0, 3}

\* ingest.ts:1010-1041, what loading and parsing an English law comes to: the
\* DOCX parsed, the configured Arabic fallback parsed, no fallback configured,
\* or the fallback failed too
EnglishSources == {"docx", "fallback", "no_fallback", "fallback_failed"}

\* ingest.ts:714-716 and 1060, the seed file written for an entry
SeedFile(index, corpus, entry, count) ==
    [index |-> index, corpus |-> corpus, entry |-> entry, provisions |-> count]

\* ingest.ts:1213 and 1219
RunsEnglish == opts.corpus \in {"all", "en"}
RunsArabic == opts.corpus \in {"all", "ar"}

\* ingest.ts:1213-1223, main after a corpus: the next corpus, or the summary
AfterEnglish == IF RunsArabic THEN "ar_crawl" ELSE "finish"

IngestUnchanged(changed) ==
    /\ "ipc" \in changed \/ UNCHANGED ipc
    /\ "seedIndex" \in changed \/ UNCHANGED seedIndex
    /\ "listedLaws" \in changed \/ UNCHANGED listedLaws
    /\ "itemIdx" \in changed \/ UNCHANGED itemIdx
    /\ "currentIndex" \in changed \/ UNCHANGED currentIndex
    /\ "enStats" \in changed \/ UNCHANGED enStats
    /\ "arLaws" \in changed \/ UNCHANGED arLaws
    /\ "cursor" \in changed \/ UNCHANGED cursor
    /\ "wpc" \in changed \/ UNCHANGED wpc
    /\ "windex" \in changed \/ UNCHANGED windex
    /\ "arStats" \in changed \/ UNCHANGED arStats
    /\ "seedFiles" \in changed \/ UNCHANGED seedFiles
    /\ "ingestSkips" \in changed \/ UNCHANGED ingestSkips
    /\ "reached" \in changed \/ UNCHANGED reached
    /\ "chain" \in changed \/ UNCHANGED chain
    /\ "reports" \in changed \/ UNCHANGED reports
    /\ UNCHANGED opts
    /\ UNCHANGED nonIngestVars

\* ingest.ts:1194-1213, main up to the first corpus
MainStart ==
    /\ ipc = "main"
    /\ ipc' = IF RunsEnglish THEN "en_index" ELSE "ar_crawl"
    /\ IngestUnchanged({"ipc"})

\* ingest.ts:980-992: the index page fails to load or lists no law (main
\* fails), or it lists the laws
EnglishIndex ==
    /\ ipc = "en_index"
    /\ \/ /\ ipc' = "failed"
          /\ IngestUnchanged({"ipc"})
       \/ \E n \in 1..MaxListed :
            /\ listedLaws' = n
            /\ itemIdx' = 1
            /\ currentIndex' = seedIndex
            /\ ipc' = "en_loop"
            /\ IngestUnchanged({"ipc", "listedLaws", "itemIdx", "currentIndex"})

\* ingest.ts:1010-1041, the sources of an English entry: how the DOCX came
\* out, whether fallbackByDocxFile has an entry for it, and whether the fallback
\* page was requested
Chain(entry, source, count, configured) ==
    [entry |-> entry,
     primary |-> IF source # "docx" THEN "error"
                 ELSE IF count = 0 THEN "zero" ELSE "provisions",
     configured |-> configured,
     alternate |-> source \in {"fallback", "fallback_failed"}]

\* a loop that forgets to count the entries it skips
countSkipped_Forgotten(stats) == stats

\* ingest.ts:1018, 1037 and 1046, skipped += 1
countSkipped(stats) == [stats EXCEPT !.skipped = @ + 1]

\* ingest.ts:1001-1068, one iteration of the loop over ingestionItems
EnglishItem ==
    /\ ipc = "en_loop"
    /\ itemIdx <= listedLaws
    /\ itemIdx' = itemIdx + 1
    /\ \E source \in EnglishSources, count \in ProvisionCounts, configured \in BOOLEAN :
         /\ source = "no_fallback" => ~configured
         /\ source \in {"fallback", "fallback_failed"} => configured
         /\ chain' = chain \cup {Chain(itemIdx, source, count, configured)}
         /\ IF source \in {"no_fallback", "fallback_failed"} THEN
                \* lines 1015-1021 and 1032-1040
                /\ count = 0
                /\ enStats' = countSkipped(enStats)
                /\ ingestSkips' = ingestSkips \cup {<<"en", itemIdx, source>>}
                /\ IngestUnchanged({"itemIdx", "chain", "enStats", "ingestSkips"})
            ELSE IF count = 0 THEN
                \* lines 1043-1049
                /\ enStats' = [countSkipped(enStats) EXCEPT
                                 !.fallbackUsed = IF source = "fallback" THEN @ + 1 ELSE @]
                /\ ingestSkips' = ingestSkips \cup {<<"en", itemIdx, "no_provisions">>}
                /\ reached' = reached \cup {<<"en", itemIdx, count>>}
                /\ IngestUnchanged({"itemIdx", "chain", "enStats", "ingestSkips",
                                    "reached"})
            ELSE
                \* lines 1051-1061
                /\ enStats' = [enStats EXCEPT
                                 !.written = @ + 1,
                                 !.fallbackUsed = IF source = "fallback" THEN @ + 1 ELSE @]
                /\ seedFiles' = seedFiles \cup
                                   {SeedFile(currentIndex, "en", itemIdx, count)}
                /\ currentIndex' = currentIndex + 1
                /\ reached' = reached \cup {<<"en", itemIdx, count>>}
                /\ IngestUnchanged({"itemIdx", "chain", "enStats", "seedFiles",
                                    "currentIndex", "reached"})

\* ingest.ts:1070-1080 and 1215
EnglishReturn ==
    /\ ipc = "en_loop"
    /\ itemIdx > listedLaws
    /\ seedIndex' = currentIndex
    /\ ipc' = AfterEnglish
    /\ IngestUnchanged({"ipc", "seedIndex"})

\* ingest.ts:1089-1101 and 1176: crawlLawIndex throws (main fails), or returns
\* the catalog and the workers are started
ArabicCrawl ==
    /\ ipc = "ar_crawl"
    /\ \/ /\ ipc' = "failed"
          /\ IngestUnchanged({"ipc"})
       \/ \E n \in 0..MaxLaws :
            /\ arLaws' = n
            /\ cursor' = 0
            /\ wpc' = [w \in Workers |-> "take"]
            /\ ipc' = "ar_pool"
            /\ IngestUnchanged({"ipc", "arLaws", "cursor", "wpc"})

\* a numbering by order of completion
arabicIndex_CompletionOrder(index) == seedIndex + arStats.completed

\* ingest.ts:1152, startIndex + index
arabicIndex(index) == seedIndex + index

\* a processLaw that writes nothing for a law whose page could not be fetched
writeArabic_FailureDropsRecord(index, count, failed) ==
    /\ seedFiles' = IF failed THEN seedFiles
                    ELSE seedFiles \cup {SeedFile(arabicIndex(index), "ar", index + 1, count)}
    /\ arStats' = [arStats EXCEPT
                     !.written = IF failed THEN @ ELSE @ + 1,
                     !.completed = @ + 1,
                     !.fetchFailed = IF failed THEN @ + 1 ELSE @,
                     !.textlessWritten = IF count = 0 /\ ~failed THEN @ + 1 ELSE @]
    /\ ingestSkips' = IF failed THEN ingestSkips \cup {<<"ar", index + 1, "fetch_failed">>}
                      ELSE ingestSkips
    /\ reached' = reached \cup {<<"ar", index + 1, count>>}

\* ingest.ts:1125-1158, processLaw once the text is there or is known to be
\* missing: the record is written under startIndex + index
writeArabic(index, count, failed) ==
    /\ seedFiles' = seedFiles \cup {SeedFile(arabicIndex(index), "ar", index + 1, count)}
    /\ arStats' = [arStats EXCEPT
                     !.written = @ + 1,
                     !.completed = @ + 1,
                     !.fetchFailed = IF failed THEN @ + 1 ELSE @,
                     !.textlessWritten = IF count = 0 THEN @ + 1 ELSE @]
    /\ ingestSkips' = IF failed THEN ingestSkips \cup {<<"ar", index + 1, "fetch_failed">>}
                      ELSE ingestSkips
    /\ reached' = reached \cup {<<"ar", index + 1, count>>}

\* a worker that leaves the cursor where it found it
nextCursor_Stuck(c) == c

\* ingest.ts:1168, cursor += 1
nextCursor(c) == c + 1

\* ingest.ts:1166-1172, a worker takes the next index: it returns past the end
\* of the catalog; with --ar-metadata-only processLaw runs through without
\* waiting for anything; otherwise it waits for loadTextWithCache
WorkerTake(w) ==
    /\ ipc = "ar_pool"
    /\ wpc[w] = "take"
    /\ cursor' = nextCursor(cursor)
    /\ windex' = [windex EXCEPT ![w] = IF cursor < arLaws /\ ~opts.arMetadataOnly
                                         THEN cursor ELSE 0]
    /\ IF cursor >= arLaws THEN
           /\ wpc' = [wpc EXCEPT ![w] = "returned"]
           /\ IngestUnchanged({"cursor", "windex", "wpc"})
       ELSE IF opts.arMetadataOnly THEN
           /\ writeArabic(cursor, 0, FALSE)
           /\ IngestUnchanged({"cursor", "windex", "seedFiles", "arStats", "ingestSkips",
                               "reached"})
       ELSE
           /\ wpc' = [wpc EXCEPT ![w] = "load"]
           /\ IngestUnchanged({"cursor", "windex", "wpc"})

\* ingest.ts:1116-1158, loadTextWithCache settles: the fetch or the parse failed,
\* or the page was parsed into count provisions
WorkerProcess(w) ==
    /\ ipc = "ar_pool"
    /\ wpc[w] = "load"
    /\ wpc' = [wpc EXCEPT ![w] = "take"]
    /\ windex' = [windex EXCEPT ![w] = 0]
    /\ \/ writeArabic(windex[w], 0, TRUE)
       \/ \E count \in ProvisionCounts : writeArabic(windex[w], count, FALSE)
    /\ IngestUnchanged({"wpc", "windex", "seedFiles", "arStats", "ingestSkips", "reached"})

\* a return that numbers on from the laws that have text
ArabicReturn_TextOnly ==
    /\ ipc = "ar_pool"
    /\ \A w \in Workers : wpc[w] = "returned"
    /\ seedIndex' = seedIndex + arStats.written - arStats.textlessWritten
    /\ ipc' = "finish"
    /\ IngestUnchanged({"ipc", "seedIndex"})

\* ingest.ts:1176-1190 and 1221, Promise.all settles
ArabicReturn ==
    /\ ipc = "ar_pool"
    /\ \A w \in Workers : wpc[w] = "returned"
    /\ seedIndex' = seedIndex + arLaws
    /\ ipc' = "finish"
    /\ IngestUnchanged({"ipc", "seedIndex"})

\* neither report has been written
NoReports == [manifest |-> 0, skipped |-> 0, seed_files_written |-> 0, skipped_count |-> 0]

\* a main that writes its reports before it looks at the number of seed files
writeReports_BeforeCheck(totalWritten) ==
    [manifest |-> reports.manifest + 1, skipped |-> reports.skipped + 1,
     seed_files_written |-> totalWritten, skipped_count |-> Cardinality(ingestSkips)]

\* ingest.ts:1225-1251: the throw on zero seed files, then the manifest with its
\* summary and the skip report, one writeFileSync each
writeReports(totalWritten) ==
    IF totalWritten = 0 THEN reports
    ELSE [manifest |-> reports.manifest + 1, skipped |-> reports.skipped + 1,
          seed_files_written |-> totalWritten, skipped_count |-> Cardinality(ingestSkips)]

\* ingest.ts:1225-1252: no seed file at all is fatal, otherwise the manifest is
\* written
MainFinish ==
    /\ ipc = "finish"
    /\ ipc' = IF seedIndex - 1 = 0 THEN "failed" ELSE "done"
    /\ reports' = writeReports(seedIndex - 1)
    /\ IngestUnchanged({"ipc", "reports"})

IngestInit(start, corpora) ==
    /\ ipc = start
    /\ opts \in [corpus : corpora, arMetadataOnly : BOOLEAN]
    /\ seedIndex = 1
    /\ listedLaws = 0
    /\ itemIdx = 1
    /\ currentIndex = 1
    /\ enStats = [written |-> 0, skipped |-> 0, fallbackUsed |-> 0]
    /\ arLaws = 0
    /\ cursor = 0
    /\ wpc = [w \in Workers |-> "take"]
    /\ windex = [w \in Workers |-> 0]
    /\ arStats = [written |-> 0, completed |-> 0, fetchFailed |-> 0, textlessWritten |-> 0]
    /\ seedFiles = {}
    /\ ingestSkips = {}
    /\ reached = {}
    /\ chain = {}
    /\ reports = NoReports

\* main before it runs
IngestIdle ==
    /\ IngestInit("idle", {"all"})
    /\ opts.arMetadataOnly = FALSE

(***************************************************************************)
(* scripts/ingest.ts, main: the ingestion of the curated TARGET_LAWS, one   *)
(* target after the other.                                                 *)
(***************************************************************************)
\* scripts/ingest.ts:164-194, what the loop body comes to for a target: its DOCX
\* is not in the index, loadDocxFile or parseDocxLegislation throws, the DOCX
\* has no article, or the seed is written
TargetOutcomes == {"not_listed", "document_failed", "no_provisions", "written"}

\* scripts/ingest.ts:147-162: the index cannot be loaded or lists no law (main
\* rejects), or the targets are cut to --limit
LegacyIndex ==
    /\ legacyPc = "index"
    /\ \/ /\ legacyPc' = "failed"
          /\ fatal' = "index"
          /\ UNCHANGED targets
       \/ \E n \in 1..MaxTargets :
            /\ targets' = n
            /\ legacyPc' = "loop"
            /\ UNCHANGED fatal
    /\ UNCHANGED <<targetIdx, written, skipped, legacyFiles, outcomes>>
    /\ UNCHANGED nonLegacyVars

\* scripts/ingest.ts:164-194, one iteration of the loop over targets
LegacyTarget ==
    /\ legacyPc = "loop"
    /\ targetIdx <= targets
    /\ \E outcome \in TargetOutcomes :
         /\ outcomes' = Append(outcomes, outcome)
         /\ IF outcome = "document_failed" THEN
                \* lines 176-178, loadDocxFile and parseDocxLegislation are called
                \* outside any try block: main rejects
                /\ legacyPc' = "failed"
                /\ fatal' = "document"
                /\ UNCHANGED <<targetIdx, written, skipped, legacyFiles>>
            ELSE IF outcome = "written" THEN
                /\ written' = written + 1
                /\ legacyFiles' = legacyFiles \cup
                                     {[index |-> written + 1, target |-> targetIdx]}
                /\ targetIdx' = targetIdx + 1
                /\ UNCHANGED <<legacyPc, skipped, fatal>>
            ELSE
                /\ skipped' = skipped + 1
                /\ targetIdx' = targetIdx + 1
                /\ UNCHANGED <<legacyPc, written, legacyFiles, fatal>>
    /\ UNCHANGED targets
    /\ UNCHANGED nonLegacyVars

\* scripts/ingest.ts:196-207
LegacyFinish ==
    /\ legacyPc = "loop"
    /\ targetIdx > targets
    /\ IF written = 0
       THEN legacyPc' = "failed" /\ fatal' = "zero_output"
       ELSE legacyPc' = "done" /\ UNCHANGED fatal
    /\ UNCHANGED <<targets, targetIdx, written, skipped, legacyFiles, outcomes>>
    /\ UNCHANGED nonLegacyVars

LegacyInit(start) ==
    /\ legacyPc = start
    /\ targets = 0
    /\ targetIdx = 1
    /\ written = 0
    /\ skipped = 0
    /\ legacyFiles = {}
    /\ outcomes = <<>>
    /\ fatal = ""

LegacyIdle == LegacyInit("idle")

(***************************************************************************)
(* ingest.ts, loadTextWithCache and loadBinaryWithCache: the read-through  *)
(* cache of the pages and documents of the portal.                         *)
(***************************************************************************)
Absent == "<absent>"
\* ingest.ts:718-721, lawViewCachePath(lawId, 'ar')
lawViewCachePath(lawId) == ToString(lawId) \o "-ar.html"

\* ingest.ts:723-726, yearPageCachePath(2021, 1, 'ar')
ListingPath == "year-2021-page-1.html"

CachePaths == {ListingPath, "132016.docx"} \cup {lawViewCachePath(lawId) : lawId \in 1..MaxLaws}

\* the bodies the portal serves: a short page and a long one
Contents == {"short page", "long page"}

\* parseArgs, ingest.ts:584-586: --skip-fetch and --refresh exclude each other
CacheOptions == {o \in [skipFetch : BOOLEAN, refresh : BOOLEAN] : ~(o.skipFetch /\ o.refresh)}

\* the loader of a path: the pages are text, the documents binary
LoaderOf(path) == IF path = "132016.docx" THEN "binary" ELSE "text"

\* fs.existsSync(localPath)
existsSync(path) == cacheFiles[path] # Absent

\* a loader that goes to the network whatever the cache holds
cacheHit_Never(o, path) == FALSE

\* ingest.ts:734 and 752, !opts.refresh && fs.existsSync(localPath)
cacheHit(o, path) == ~o.refresh /\ existsSync(path)

\* loadTextWithCache returns the text, loadBinaryWithCache nothing
Loaded(fn, content) == IF fn = "text" THEN content ELSE "<void>"

NoLoad == [fn |-> "", path |-> "", before |-> <<>>, dispatched |-> FALSE, fetched |-> "",
           returned |-> ""]

\* ingest.ts:728-736 and 746-754, the call up to the first await: under
\* --skip-fetch the file is read or the call throws; a hit returns the file;
\* otherwise the url is requested
LoadCall ==
    /\ loadPc \in {"ready", "returned", "thrown"}
    /\ loadCount < MaxLoads
    /\ loadCount' = loadCount + 1
    /\ \E path \in CachePaths :
         LET fn == LoaderOf(path)
             this == [NoLoad EXCEPT !.fn = fn, !.path = path, !.before = cacheFiles] IN
         IF cacheOpts.skipFetch THEN
             IF ~existsSync(path)
             THEN loadPc' = "thrown" /\ load' = this
             ELSE /\ loadPc' = "returned"
                  /\ load' = [this EXCEPT !.returned = Loaded(fn, cacheFiles[path])]
         ELSE IF cacheHit(cacheOpts, path) THEN
             /\ loadPc' = "returned"
             /\ load' = [this EXCEPT !.returned = Loaded(fn, cacheFiles[path])]
         ELSE
             /\ loadPc' = "fetching"
             /\ load' = [this EXCEPT !.dispatched = TRUE]
    /\ UNCHANGED <<cacheOpts, cacheFiles>>
    /\ UNCHANGED nonCacheVars

\* ingest.ts:738-743 and 756-760, fetchTextFromUrl / fetchBinaryFromUrl settles:
\* it throws, or the body is written to the cache file and returned
LoadSettle ==
    /\ loadPc = "fetching"
    /\ \/ /\ loadPc' = "thrown"
          /\ UNCHANGED <<cacheFiles, load>>
       \/ \E body \in Contents :
            /\ cacheFiles' = [cacheFiles EXCEPT ![load.path] = body]
            /\ load' = [load EXCEPT !.fetched = body, !.returned = Loaded(load.fn, body)]
            /\ loadPc' = "returned"
    /\ UNCHANGED <<cacheOpts, loadCount>>
    /\ UNCHANGED nonCacheVars

CacheInit(start, options, directories) ==
    /\ loadPc = start
    /\ cacheOpts \in options
    /\ cacheFiles \in directories
    /\ load = NoLoad
    /\ loadCount = 0

CacheIdle ==
    CacheInit("idle", {[skipFetch |-> FALSE, refresh |-> FALSE]},
              {[path \in CachePaths |-> Absent]})

(***************************************************************************)
(* ingest.ts, buildTargets and generateAutoId: the ids of the English      *)
(* catalogue.  File names and titles come from a small repertoire, and the *)
(* string functions are tables over it (no slug of it exceeds 72           *)
(* characters, so the truncation of ingest.ts:668-670 never applies).      *)
(***************************************************************************)
DocxFileNames ==
    {"132016.docx", "132016.DOCX", "142014.docx", "PDP Law.docx", "pdp-law.docx", "77.docx"}
CatalogTitles == {"PDP Law", ""}

\* a ListedLaw, as far as buildTargets reads it
ListedLaws == [docx_file_name : DocxFileNames, title_en : CatalogTitles]

\* ingest.ts:630-632, normaliseFileKey: whitespace collapsed, lower case
normaliseFileKey(name) == IF name = "132016.DOCX" THEN "132016.docx" ELSE name

\* ingest.ts:474-525, FIXED_TARGETS_BY_DOCX (the two entries of the repertoire),
\* keyed as fixedByDocx is
fixedByDocx ==
    [key \in {"132016.docx", "142014.docx"} |->
        IF key = "132016.docx" THEN "qa-pdp-law" ELSE "qa-cybercrime-law"]

\* path.basename(name, path.extname(name))
fileStem(name) ==
    CASE name = "132016.docx" -> "132016"
      [] name = "132016.DOCX" -> "132016"
      [] name = "142014.docx" -> "142014"
      [] name = "PDP Law.docx" -> "PDP Law"
      [] name = "pdp-law.docx" -> "pdp-law"
      [] name = "77.docx" -> "77"

\* ingest.ts:634-644, slugify
slugify(value) ==
    CASE value \in {"PDP Law", "pdp-law"} -> "pdp-law"
      [] OTHER -> value

\* /^\d+$/.test(slug)
allDigits(slug) == slug \in {"132016", "142014", "77"}

\* ingest.ts:672-677, the first of qa-slug, qa-slug-2, qa-slug-3, ... not in used
RECURSIVE firstFree(_, _, _)
firstFree(slug, suffix, used) ==
    LET candidate == IF suffix = 1 THEN "qa-" \o slug
                     ELSE "qa-" \o slug \o "-" \o ToString(suffix) IN
    IF candidate \in used THEN firstFree(slug, suffix + 1, used) ELSE candidate

\* ingest.ts:654-678, generateAutoId
generateAutoId(law, ordinal, used) ==
    LET stemSlug == slugify(fileStem(law.docx_file_name))
        titled == IF stemSlug = "" \/ allDigits(stemSlug)
                  THEN slugify(IF law.title_en # "" THEN law.title_en
                               ELSE "law-" \o ToString(ordinal + 1))
                  ELSE stemSlug
        slug == IF titled = "" THEN "law-" \o ToString(ordinal + 1) ELSE titled
    IN firstFree(slug, 1, used)

\* ingest.ts:686-701, the map callback for the next law: a curated target is
\* returned as it is, any other law gets a generated id; either id joins usedIds
BuildTarget ==
    /\ buildPc = "map"
    /\ Len(builtIds) < Len(catalogLaws)
    /\ LET index == Len(builtIds)
           law == catalogLaws[index + 1]
           key == normaliseFileKey(law.docx_file_name)
           id == IF key \in DOMAIN fixedByDocx THEN fixedByDocx[key]
                 ELSE generateAutoId(law, index, usedIds) IN
       /\ usedIds' = usedIds \cup {id}
       /\ builtIds' = Append(builtIds, id)
    /\ UNCHANGED <<buildPc, catalogLaws>>
    /\ UNCHANGED nonTargetVars

\* ingest.ts:686, map returns the targets
BuildReturn ==
    /\ buildPc = "map"
    /\ Len(builtIds) = Len(catalogLaws)
    /\ buildPc' = "done"
    /\ UNCHANGED <<catalogLaws, usedIds, builtIds>>
    /\ UNCHANGED nonTargetVars

TargetInit(start, catalogues) ==
    /\ buildPc = start
    /\ catalogLaws \in catalogues
    /\ usedIds = {}
    /\ builtIds = <<>>

TargetIdle == TargetInit("idle", {<<>>})

(***************************************************************************)
(* ingest.ts, main --corpus ar run twice with the same options over one    *)
(* cache directory that nothing but the runs writes to.  The catalog comes *)
(* from one listing page, every law has its LawViewWord page, and both are *)
(* loaded with loadTextWithCache.  The parsers are tables over Contents.   *)
(***************************************************************************)
\* ingest.ts:822-864, the laws a listing page lists
lawsListed(content) == IF content = "short page" THEN 1 ELSE MaxLaws

\* parseLawViewWordLegislation(html).provisions.length
provisionsParsed(content) == IF content = "short page" THEN 0 ELSE 3

\* a description that carries the time of the run
description_Stamped(count, failed) == "generated at " \o ToString(runNo)

\* ingest.ts:1133-1139, description (without --ar-metadata-only)
description(count, failed) ==
    IF failed THEN "LawViewWord could not be fetched at ingestion time"
    ELSE IF count = 0 THEN "LawViewWord returned no article-level text at ingestion time"
    ELSE "Official legislation text retrieved"

\* ingest.ts:1141-1153, the seed file of the law at index
RerunRecord(index, count, failed) ==
    [file |-> SeedFile(arabicIndex(index), "ar", index + 1, count),
     description |-> description(count, failed)]

\* ingest.ts:728-736, loadTextWithCache up to its first await
loadSync(path) ==
    IF cacheOpts.skipFetch THEN (IF existsSync(path) THEN "hit" ELSE "thrown")
    ELSE IF cacheHit(cacheOpts, path) THEN "hit"
    ELSE "fetching"

NoRun == [files |-> {}, cache |-> <<>>]

\* main returns or rejects
RerunEnds ==
    /\ rerunPc' = "ended"
    /\ rrWpc' = [w \in Workers |-> "take"]
    /\ rrWindex' = [w \in Workers |-> 0]
    /\ rrCursor' = 0

\* ingest.ts:1089 and 1225-1228, crawlLawIndex: the listing page is read from
\* the cache, or fetched and stored; without it no law is found and main rejects
\* with zero seed files
RerunCrawl ==
    /\ rerunPc = "crawl"
    /\ \/ /\ loadSync(ListingPath) = "hit"
          /\ rrLaws' = lawsListed(cacheFiles[ListingPath])
          /\ rerunPc' = "pool"
          /\ UNCHANGED <<cacheFiles, rrWpc, rrWindex, rrCursor>>
       \/ /\ loadSync(ListingPath) = "fetching"
          /\ \E body \in Contents :
               /\ cacheFiles' = [cacheFiles EXCEPT ![ListingPath] = body]
               /\ rrLaws' = lawsListed(body)
          /\ rerunPc' = "pool"
          /\ UNCHANGED <<rrWpc, rrWindex, rrCursor>>
       \/ /\ loadSync(ListingPath) \in {"thrown", "fetching"}
          /\ RerunEnds
          /\ UNCHANGED <<cacheFiles, rrLaws>>
    /\ UNCHANGED <<runNo, rrFiles, firstRun, startCache, cacheOpts>>
    /\ UNCHANGED nonRerunVars

\* ingest.ts:1166-1172 and 728-736, a worker takes the next index and calls
\* loadTextWithCache for its law, which runs up to its first await
RerunTake(w) ==
    /\ rerunPc = "pool"
    /\ rrWpc[w] = "take"
    /\ rrCursor' = nextCursor(rrCursor)
    /\ rrWindex' = [rrWindex EXCEPT ![w] = IF rrCursor >= rrLaws THEN 0 ELSE rrCursor]
    /\ rrWpc' = [rrWpc EXCEPT ![w] = IF rrCursor >= rrLaws THEN "returned"
                                     ELSE loadSync(lawViewCachePath(rrCursor + 1))]
    /\ UNCHANGED <<rerunPc, runNo, rrLaws, rrFiles, firstRun, startCache, cacheFiles, cacheOpts>>
    /\ UNCHANGED nonRerunVars

\* ingest.ts:1116-1153 and 738-743, loadTextWithCache settles and processLaw
\* writes the record: from the cached page, from the page fetched and stored,
\* or from the listing alone when the page could not be had
RerunProcess(w) ==
    /\ rerunPc = "pool"
    /\ rrWpc[w] \in {"hit", "thrown", "fetching"}
    /\ LET index == rrWindex[w]
           path == lawViewCachePath(index + 1) IN
       \/ /\ rrWpc[w] = "hit"
          /\ rrFiles' = rrFiles \cup
                {RerunRecord(index, provisionsParsed(cacheFiles[path]), FALSE)}
          /\ UNCHANGED cacheFiles
       \/ /\ rrWpc[w] \in {"thrown", "fetching"}
          /\ rrFiles' = rrFiles \cup {RerunRecord(index, 0, TRUE)}
          /\ UNCHANGED cacheFiles
       \/ /\ rrWpc[w] = "fetching"
          /\ \E body \in Contents :
               /\ cacheFiles' = [cacheFiles EXCEPT ![path] = body]
               /\ rrFiles' = rrFiles \cup {RerunRecord(index, provisionsParsed(body), FALSE)}
    /\ rrWpc' = [rrWpc EXCEPT ![w] = "take"]
    /\ rrWindex' = [rrWindex EXCEPT ![w] = 0]
    /\ UNCHANGED <<rerunPc, runNo, rrLaws, rrCursor, firstRun, startCache, cacheOpts>>
    /\ UNCHANGED nonRerunVars

\* ingest.ts:1176-1190 and 1225-1252, Promise.all settles and main finishes
RerunReturn ==
    /\ rerunPc = "pool"
    /\ \A w \in Workers : rrWpc[w] = "returned"
    /\ RerunEnds
    /\ UNCHANGED <<runNo, rrLaws, rrFiles, firstRun, startCache, cacheFiles, cacheOpts>>
    /\ UNCHANGED nonRerunVars

\* ingest.ts:1194-1206, main is started again: clearSeedFiles empties the seed
\* directory
Rerun ==
    /\ rerunPc = "ended"
    /\ runNo = 1
    /\ firstRun' = [files |-> rrFiles, cache |-> cacheFiles]
    /\ runNo' = 2
    /\ rrFiles' = {}
    /\ rrLaws' = 0
    /\ rerunPc' = "crawl"
    /\ UNCHANGED <<rrCursor, rrWpc, rrWindex, startCache, cacheFiles, cacheOpts>>
    /\ UNCHANGED nonRerunVars

RerunInit(start) ==
    /\ rerunPc = start
    /\ runNo = 1
    /\ rrLaws = 0
    /\ rrCursor = 0
    /\ rrWpc = [w \in Workers |-> "take"]
    /\ rrWindex = [w \in Workers |-> 0]
    /\ rrFiles = {}
    /\ firstRun = NoRun
    /\ startCache = cacheFiles

RerunIdle == RerunInit("idle")

(***************************************************************************)
(* parser.ts, extractDefinitions.  The content of a provision is a         *)
(* sequence of clauses: an optional quote, a term, the quote again,        *)
(* " means ", a body without full stop, semicolon or line break, and the   *)
(* character that ends the body; the clauses are separated by one space.   *)
(***************************************************************************)
Clause(quote, term, body, end) == [quote |-> quote, term |-> term, body |-> body, end |-> end]

Clauses ==
    { Clause("'", "Personal Data", "any information relating to an identified individual", "."),
      Clause("", "PERSONAL DATA", "another thing altogether", ";"),
      Clause("", "Controller", "a          b", "."),
      Clause("", "A", "the first letter of the alphabet", "."),
      Clause("", "Controller", "the person who decides", "\n") }

\* the i-th of a long list of defined terms
NumberedClause(i) ==
    Clause("", "Term " \o ToString(i), "the meaning of term " \o ToString(i), ".")

\* a list of n numbered terms in which the first comes back in capitals
LongContent(n) ==
    [i \in 1..n |-> IF i = 3 THEN Clause("", "TERM 1", "the first term once more", ".")
                    ELSE NumberedClause(i)]

\* the text of a clause and of a content
clauseText(c) == c.quote \o c.term \o c.quote \o " means " \o c.body \o c.end

RECURSIVE contentText(_)
contentText(content) ==
    IF content = <<>> THEN ""
    ELSE IF Len(content) = 1 THEN clauseText(content[1])
    ELSE clauseText(content[1]) \o " " \o contentText(Tail(content))

DefProvision(section, content) ==
    [provision_ref |-> "art" \o section, section |-> section, content |-> content]

\* parser.ts:287-289, the filter of the candidates: section 1, or the word
\* "means" in the content (a title is 'Article (N)' and never holds "definition")
isCandidate(p) == p.section = "1" \/ p.content # <<>>

candidates == SelectSeq(defProvisions, isCandidate)

\* parser.ts:291, definitionRegex at clause i of the content: the clause starts
\* the content or follows a full stop or a semicolon, the term has the letter
\* and at least one more character, the body at least ten characters
regexMatches(content, i) ==
    /\ i = 1 \/ content[i - 1].end \in {".", ";"}
    /\ Len(content[i].term) >= 2
    /\ Len(content[i].body) >= 10

\* definitionRegex.exec(content) from lastIndex: the clause matched (0: null)
exec(content, from) ==
    LET found == {i \in from..Len(content) : regexMatches(content, i)} IN
    IF found = {} THEN 0 ELSE CHOOSE i \in found : \A j \in found : i <= j

\* normaliseWhitespace on the terms and bodies of the clauses
normaliseWhitespace(value) == IF value = "a          b" THEN "a b" ELSE value

\* String.prototype.toLowerCase on the terms of the clauses
lowerCase(term) ==
    IF term \in {"Personal Data", "PERSONAL DATA"} THEN "personal data"
    ELSE IF term = "Controller" THEN "controller"
    ELSE IF term = "A" THEN "a"
    ELSE LET n == {i \in 1..(DefinitionCap + MaxClauses) :
                      term \in {"Term " \o ToString(i), "TERM " \o ToString(i)}} IN
         IF n = {} THEN term ELSE "term " \o ToString(CHOOSE i \in n : TRUE)

\* a key that tells capitals from small letters
termKey_CaseSensitive(term) == term

\* parser.ts:300, const key = term.toLowerCase()
termKey(term) == lowerCase(term)

\* parser.ts:294-313, one definitionRegex.exec and the body of the while loop;
\* when exec returns null the for loop goes to the next candidate
DefinitionExec ==
    /\ defPc = "loop"
    /\ candIdx <= Len(candidates)
    /\ LET provision == candidates[candIdx]
           at == exec(provision.content, lastIndex) IN
       IF at = 0 THEN
           /\ candIdx' = candIdx + 1
           /\ lastIndex' = 1
           /\ UNCHANGED <<defPc, definitions, seen>>
       ELSE
           LET term == normaliseWhitespace(provision.content[at].term)
               definition == normaliseWhitespace(provision.content[at].body)
               key == termKey(term) IN
           /\ lastIndex' = at + 1
           /\ candIdx' = candIdx
           /\ IF Len(term) < 2 \/ Len(definition) < 10 \/ key \in seen THEN
                  UNCHANGED <<defPc, definitions, seen>>
              ELSE
                  /\ seen' = seen \cup {key}
                  /\ definitions' = Append(definitions,
                                           [term |-> term, definition |-> definition,
                                            source_provision |-> provision.provision_ref])
                  /\ defPc' = IF Len(definitions) + 1 >= DefinitionCap THEN "done"
                              ELSE defPc
    /\ UNCHANGED defProvisions
    /\ UNCHANGED nonDefVars

\* parser.ts:316, return definitions after the last candidate
DefinitionsReturn ==
    /\ defPc = "loop"
    /\ candIdx > Len(candidates)
    /\ defPc' = "done"
    /\ UNCHANGED <<defProvisions, candIdx, lastIndex, definitions, seen>>
    /\ UNCHANGED nonDefVars

DefInit(start, documents) ==
    /\ defPc = start
    /\ defProvisions \in documents
    /\ candIdx = 1
    /\ lastIndex = 1
    /\ definitions = <<>>
    /\ seen = {}

DefIdle == DefInit("idle", {<<>>})

(***************************************************************************)
(* parser.ts, the section number of a LawArticles link.  A string is the   *)
(* sequence of its code points.                                            *)
(***************************************************************************)
\* "المادة", the Arabic word for article
ArticleKeyword == <<1575, 1604, 1605, 1575, 1583, 1577>>
\* "مكرر", the mark of a repeated article number
RepeatedMark == <<1605, 1603, 1585, 1585>>
\* "Article"
ArticleWord == <<65, 114, 116, 105, 99, 108, 101>>

Space == 32
NoBreakSpace == 160
\* the characters \s matches
WhiteSpace ==
    {9, 10, 11, 12, 13, 32, 160, 5760, 8232, 8233, 8239, 8287, 12288, 65279} \cup (8192..8202)
AsciiDigits == 48..57
AsciiLetters == (65..90) \cup (97..122)
ArabicIndicDigits == 1632..1641
ExtendedArabicIndicDigits == 1776..1785

\* parser.ts:592-597
DIGIT_MAP ==
    (1632 :> 48) @@ (1633 :> 49) @@ (1634 :> 50) @@ (1635 :> 51) @@ (1636 :> 52) @@
    (1637 :> 53) @@ (1638 :> 54) @@ (1639 :> 55) @@ (1640 :> 56) @@ (1641 :> 57) @@
    (1776 :> 48) @@ (1777 :> 49) @@ (1778 :> 50) @@ (1779 :> 51) @@ (1780 :> 52) @@
    (1781 :> 53) @@ (1782 :> 54) @@ (1783 :> 55) @@ (1784 :> 56) @@ (1785 :> 57)

\* a replacement that knows the Arabic-Indic digits only
normaliseDigits_ArabicIndicOnly(value) ==
    [i \in 1..Len(value) |->
        IF value[i] \in ArabicIndicDigits THEN DIGIT_MAP[value[i]] ELSE value[i]]

\* parser.ts:599-601, value.replace(/[٠-٩۰-۹]/g, digit => DIGIT_MAP[digit] ?? digit)
normaliseDigits(value) ==
    [i \in 1..Len(value) |->
        IF value[i] \in ArabicIndicDigits \cup ExtendedArabicIndicDigits
        THEN (IF value[i] \in DOMAIN DIGIT_MAP THEN DIGIT_MAP[value[i]] ELSE value[i])
        ELSE value[i]]

\* the characters of value from position i on
Rest(value, i) == SubSeq(value, i, Len(value))

\* String.prototype.toLowerCase on the ASCII letters
lowerCode(c) == IF c \in 65..90 THEN c + 32 ELSE c

\* pattern, in small letters, matches value at position i whatever the case
MatchesAt(value, i, pattern) ==
    /\ i + Len(pattern) - 1 <= Len(value)
    /\ \A k \in 1..Len(pattern) : lowerCode(value[i + k - 1]) = pattern[k]

\* word stands in value at position i
StartsAt(value, i, word) ==
    /\ i + Len(word) - 1 <= Len(value)
    /\ \A k \in 1..Len(word) : value[i + k - 1] = word[k]

\* value.replace(/pattern/gi, replacement)
RECURSIVE replaceAll(_, _, _)
replaceAll(value, pattern, replacement) ==
    LET found == {i \in 1..Len(value) : MatchesAt(value, i, pattern)} IN
    IF found = {} THEN value
    ELSE LET i == CHOOSE j \in found : \A k \in found : j <= k IN
         SubSeq(value, 1, i - 1) \o replacement
            \o replaceAll(Rest(value, i + Len(pattern)), pattern, replacement)

\* parser.ts:56-67, the entities in the order they are replaced
Entities ==
    << <<<<38, 110, 98, 115, 112, 59>>, <<Space>>>>,          \* &nbsp;
       <<<<38, 97, 109, 112, 59>>, <<38>>>>,                  \* &amp;
       <<<<38, 108, 116, 59>>, <<60>>>>,                      \* &lt;
       <<<<38, 103, 116, 59>>, <<62>>>>,                      \* &gt;
       <<<<38, 113, 117, 111, 116, 59>>, <<34>>>>,            \* &quot;
       <<<<38, 35, 51, 57, 59>>, <<39>>>>,                    \* &#39;
       <<<<38, 35, 120, 50, 55, 59>>, <<39>>>>,               \* &#x27;
       <<<<38, 35, 120, 50, 102, 59>>, <<47>>>>,              \* &#x2F;
       <<<<38, 35, 49, 54, 48, 59>>, <<Space>>>> >>           \* &#160;

RECURSIVE decodeFrom(_, _)
decodeFrom(value, n) ==
    IF n > Len(Entities) THEN value
    ELSE decodeFrom(replaceAll(value, Entities[n][1], Entities[n][2]), n + 1)

\* parser.ts:56-67
decodeHtmlEntities(value) == decodeFrom(value, 1)

\* parser.ts:608, value.replace(/<[^>]+>/g, ' ')
RECURSIVE stripTags(_)
stripTags(value) ==
    LET closing(i) == {j \in (i + 1)..Len(value) : value[j] = 62}
        first(S) == CHOOSE j \in S : \A k \in S : j <= k
        opening == {i \in 1..Len(value) :
                       /\ value[i] = 60
                       /\ closing(i) # {}
                       /\ first(closing(i)) >= i + 2} IN
    IF opening = {} THEN value
    ELSE LET i == first(opening) IN
         SubSeq(value, 1, i - 1) \o <<Space>> \o stripTags(Rest(value, first(closing(i)) + 1))

\* value.replace(/\s+/g, ' ') from position i on
RECURSIVE collapse(_, _)
collapse(value, i) ==
    IF i > Len(value) THEN <<>>
    ELSE IF value[i] \notin WhiteSpace THEN <<value[i]>> \o collapse(value, i + 1)
    ELSE IF i > 1 /\ value[i - 1] \in WhiteSpace THEN collapse(value, i + 1)
    ELSE <<Space>> \o collapse(value, i + 1)

\* String.prototype.trim
trim(value) ==
    LET ink == {i \in 1..Len(value) : value[i] \notin WhiteSpace} IN
    IF ink = {} THEN <<>>
    ELSE SubSeq(value, CHOOSE i \in ink : \A k \in ink : i <= k,
                       CHOOSE i \in ink : \A k \in ink : i >= k)

\* parser.ts:603-605 on a sequence of code points
normaliseWhitespaceCodes(value) ==
    trim(collapse([i \in 1..Len(value) |->
                      IF value[i] = NoBreakSpace THEN Space ELSE value[i]], 1))

\* the number of characters of S at the head of value from position i on
RECURSIVE run(_, _, _)
run(value, i, S) ==
    IF i <= Len(value) /\ value[i] \in S THEN 1 + run(value, i + 1, S) ELSE 0

\* the value of a function that returns null
NullLabel == <<>>

\* clean.match(/^المادة\s+([0-9]+(?:\s+مكرر)?)/): group 1, or null
matchArabicLabel(value) ==
    LET k == Len(ArticleKeyword)
        ws == run(value, k + 1, WhiteSpace)
        ds == run(value, k + ws + 1, AsciiDigits)
        from == k + ws + 1
        to == from + ds - 1
        ws2 == run(value, to + 1, WhiteSpace)
        marked == ws2 >= 1 /\ StartsAt(value, to + ws2 + 1, RepeatedMark) IN
    IF ~StartsAt(value, 1, ArticleKeyword) \/ ws = 0 \/ ds = 0 THEN NullLabel
    ELSE IF marked THEN SubSeq(value, from, to + ws2 + Len(RepeatedMark))
    ELSE SubSeq(value, from, to)

\* clean.match(/^Article\s+([0-9]+[A-Za-z]?)/i): group 1, or null
matchEnglishLabel(value) ==
    LET k == Len(ArticleWord)
        ws == run(value, k + 1, WhiteSpace)
        ds == run(value, k + ws + 1, AsciiDigits)
        from == k + ws + 1
        to == from + ds - 1
        lettered == to + 1 <= Len(value) /\ value[to + 1] \in AsciiLetters IN
    IF ~MatchesAt(value, 1, [i \in 1..k |-> lowerCode(ArticleWord[i])]) \/ ws = 0 \/ ds = 0
    THEN NullLabel
    ELSE SubSeq(value, from, IF lettered THEN to + 1 ELSE to)

\* parser.ts:607-618
parseSectionFromLawArticleLabel(value) ==
    LET cleaned == normaliseDigits(normaliseWhitespaceCodes(stripTags(decodeHtmlEntities(value))))
        arabic == matchArabicLabel(cleaned)
        english == matchEnglishLabel(cleaned) IN
    IF cleaned = <<>> THEN NullLabel
    ELSE IF arabic # NullLabel THEN normaliseWhitespaceCodes(arabic)
    ELSE IF english # NullLabel THEN english
    ELSE NullLabel

\* parser.ts:607-618, one call of parseSectionFromLawArticleLabel
LabelParse ==
    /\ labelPc = "call"
    /\ spaced' = normaliseWhitespaceCodes(stripTags(decodeHtmlEntities(label)))
    /\ clean' = normaliseDigits(spaced')
    /\ labelSection' = parseSectionFromLawArticleLabel(label)
    /\ labelPc' = "returned"
    /\ UNCHANGED label
    /\ UNCHANGED nonLabelVars

LabelInit(start, labels) ==
    /\ labelPc = start
    /\ label \in labels
    /\ spaced = <<>>
    /\ clean = <<>>
    /\ labelSection = NullLabel

LabelIdle == LabelInit("idle", {<<>>})

(***************************************************************************)
(* The backfill of textless laws: parseLawViaLawArticles                   *)
(***************************************************************************)
\* one match of the LawArticles link regex: group 1 and group 2
ArticleLink(articleId, text) == [articleId |-> articleId, label |-> text]

\* lines 620-641: the links in page order, the first link of each article id
RECURSIVE extractLawArticleRefs(_)
extractLawArticleRefs(matches) ==
    IF matches = <<>> THEN <<>>
    ELSE LET earlier == extractLawArticleRefs(SubSeq(matches, 1, Len(matches) - 1))
             match == matches[Len(matches)] IN
         IF \E i \in DOMAIN earlier : earlier[i].articleId = match.articleId THEN earlier
         ELSE Append(earlier, [articleId |-> match.articleId,
                               section |-> parseSectionFromLawArticleLabel(match.label)])

\* String(n) for a number of one digit
String(n) == <<48 + n>>

\* the article page gave no provision
NoProvision == [found |-> FALSE, section |-> NullLabel]

\* line 668, ref.section ?? provision.section ?? String(index + 1)
articleSection(ref, provision, index) ==
    IF ref.section # NullLabel THEN ref.section
    ELSE IF provision.section # NullLabel THEN provision.section
    ELSE String(index + 1)

\* lines 647-651: the law page is loaded and its links are extracted
ArticlesExtract ==
    /\ artPc = "extract"
    /\ artRefs' = extractLawArticleRefs(artMatches)
    /\ artPc' = IF Len(artRefs') = 0 THEN "null" ELSE "loop"
    /\ UNCHANGED <<artMatches, artIndex, artProvisions>>
    /\ UNCHANGED nonArticleVars

\* lines 654-675, one turn of the loop: the article page is loaded and parsed
\* (provision is the first provision parseLawViewWordLegislation found in it)
ArticleTurn(provision) ==
    /\ artPc = "loop"
    /\ artIndex < Len(artRefs)
    /\ LET ref == artRefs[artIndex + 1]
           section == articleSection(ref, provision, artIndex) IN
       artProvisions' =
           IF ~provision.found THEN artProvisions
           ELSE Append(artProvisions, [provision_ref |-> <<"art", ref.articleId>>,
                                       section |-> section])
    /\ artIndex' = artIndex + 1
    /\ UNCHANGED <<artPc, artMatches, artRefs>>
    /\ UNCHANGED nonArticleVars

\* lines 677-681
ArticlesReturn ==
    /\ artPc = "loop"
    /\ artIndex = Len(artRefs)
    /\ artPc' = IF Len(artProvisions) = 0 THEN "null" ELSE "returned"
    /\ UNCHANGED <<artMatches, artRefs, artIndex, artProvisions>>
    /\ UNCHANGED nonArticleVars

ArticlesInit(start, pages) ==
    /\ artPc = start
    /\ artMatches \in pages
    /\ artRefs = <<>>
    /\ artIndex = 0
    /\ artProvisions = <<>>

ArticlesIdle == ArticlesInit("idle", {<<>>})

(***************************************************************************)
(* parseArgs of the two scripts, and loadHtmlWithCache of the backfill:    *)
(* the read-through cache of the law pages and article pages.              *)
(***************************************************************************)
Flags == {"--skip-fetch", "--refresh"}

Rejected == [thrown |-> "--skip-fetch and --refresh cannot be used together"]

\* a parseArgs that returns whatever flags were given
parseArgs_AcceptsBoth(args) ==
    [skipFetch |-> "--skip-fetch" \in args, refresh |-> "--refresh" \in args]

\* ingest.ts:539-588 and backfill:470-521, as far as the two flags go
parseArgs(args) ==
    LET skipFetch == "--skip-fetch" \in args
        refresh == "--refresh" \in args IN
    IF skipFetch /\ refresh THEN Rejected
    ELSE [skipFetch |-> skipFetch, refresh |-> refresh]

\* ingest.ts:1194, const opts = parseArgs() at the start of main
IngestParseArgs ==
    /\ loadPc = "args"
    /\ IF parseArgs(argv) = Rejected
       THEN loadPc' = "rejected" /\ UNCHANGED cacheOpts
       ELSE loadPc' = "ready" /\ cacheOpts' = parseArgs(argv)
    /\ UNCHANGED <<cacheFiles, load, loadCount>>
    /\ UNCHANGED nonCacheVars

\* backfill:696, const args = parseArgs() at the start of main
BackfillParseArgs ==
    /\ htmlPc = "args"
    /\ IF parseArgs(argv) = Rejected
       THEN htmlPc' = "rejected" /\ UNCHANGED htmlArgs
       ELSE htmlPc' = "ready" /\ htmlArgs' = parseArgs(argv)
    /\ UNCHANGED <<argv, htmlCache, htmlLoad, htmlCount>>
    /\ UNCHANGED nonHtmlVars

\* the content of a file that is not there
MissingFile == {"<missing>"}

\* backfill:531-533
lawPageCachePath(lawId) == "lawpage/" \o ToString(lawId) \o "-ar.html"

\* backfill:539-541
lawArticleCachePath(lawId, articleId) ==
    "lawarticles/" \o ToString(lawId) \o "-" \o articleId \o "-ar.html"

HtmlPaths == {lawPageCachePath(1), lawArticleCachePath(1, "7")}

\* fetcher.ts:160-207, fetchTextFromUrl returns no body it classifies as a challenge
TextBodies == {body \in Bodies : ~isAntiBotChallengeHtml(body)}

\* fs.existsSync(cachePath)
htmlExists(cachePath) == htmlCache[cachePath] # MissingFile

\* a loader that serves whatever file is there
htmlCacheHit_AnyFile(args, cachePath) == ~args.refresh /\ htmlExists(cachePath)

\* backfill:561-566, the file is there and is not a challenge page
htmlCacheHit(args, cachePath) ==
    /\ ~args.refresh
    /\ htmlExists(cachePath)
    /\ ~isAntiBotChallengeHtml(htmlCache[cachePath])

NoHtmlLoad == [path |-> "", before |-> <<>>, dispatched |-> FALSE, fetched |-> NullBody,
               returned |-> NullBody]

\* backfill:547-568, loadHtmlWithCache up to its await: under --skip-fetch the
\* file is returned, or the call throws when it is missing or a challenge page;
\* a hit returns the file; otherwise the url is requested
HtmlCall ==
    /\ htmlPc \in {"ready", "returned", "thrown"}
    /\ htmlCount < MaxLoads
    /\ htmlCount' = htmlCount + 1
    /\ \E cachePath \in HtmlPaths :
         LET this == [NoHtmlLoad EXCEPT !.path = cachePath, !.before = htmlCache]
             cached == htmlCache[cachePath] IN
         IF htmlArgs.skipFetch THEN
             IF ~htmlExists(cachePath) THEN htmlPc' = "thrown" /\ htmlLoad' = this
             ELSE IF isAntiBotChallengeHtml(cached) THEN htmlPc' = "thrown" /\ htmlLoad' = this
             ELSE htmlPc' = "returned" /\ htmlLoad' = [this EXCEPT !.returned = cached]
         ELSE IF htmlCacheHit(htmlArgs, cachePath) THEN
             htmlPc' = "returned" /\ htmlLoad' = [this EXCEPT !.returned = cached]
         ELSE
             htmlPc' = "fetching" /\ htmlLoad' = [this EXCEPT !.dispatched = TRUE]
    /\ UNCHANGED <<argv, htmlArgs, htmlCache>>
    /\ UNCHANGED nonHtmlVars

\* backfill:568-573, fetchTextFromUrl settles: it throws, or its body is
\* written to the cache file and returned unless it is a challenge page
HtmlSettle ==
    /\ htmlPc = "fetching"
    /\ \/ /\ htmlPc' = "thrown"
          /\ UNCHANGED <<htmlCache, htmlLoad>>
       \/ \E html \in TextBodies :
            IF isAntiBotChallengeHtml(html) THEN
                /\ htmlPc' = "thrown"
                /\ htmlLoad' = [htmlLoad EXCEPT !.fetched = html]
                /\ UNCHANGED htmlCache
            ELSE
                /\ htmlCache' = [htmlCache EXCEPT ![htmlLoad.path] = html]
                /\ htmlLoad' = [htmlLoad EXCEPT !.fetched = html, !.returned = html]
                /\ htmlPc' = "returned"
    /\ UNCHANGED <<argv, htmlArgs, htmlCount>>
    /\ UNCHANGED nonHtmlVars

HtmlInit(start, flags, directories) ==
    /\ argv \in flags
    /\ htmlPc = start
    /\ htmlArgs = [skipFetch |-> FALSE, refresh |-> FALSE]
    /\ htmlCache \in directories
    /\ htmlLoad = NoHtmlLoad
    /\ htmlCount = 0

HtmlIdle == HtmlInit("idle", {{}}, {[cachePath \in HtmlPaths |-> MissingFile]})

(***************************************************************************)
(* The backfill, main: the records of data/seed without provisions are     *)
(* loaded again, by a pool of workers.  A seed id is its prefix followed   *)
(* by the characters after it; a record has provisions or none.            *)
(***************************************************************************)
DecimalDigits == <<"0", "1", "2", "3", "4", "5", "6", "7", "8", "9">>

\* the digits of the capture group (\d+), as numbers
capturedDigits(seedId) ==
    [i \in 1..(Len(seedId) - 1) |-> CHOOSE d \in 0..9 : DecimalDigits[d + 1] = seedId[i + 1]]

NullLawId == 0 - 1

\* backfill:684-689, the id matches /^qa-law-(\d+)$/
parseLawId(seedId) ==
    IF /\ Len(seedId) > 1
       /\ seedId[1] = "qa-law-"
       /\ \A i \in 2..Len(seedId) : \E d \in 1..10 : DecimalDigits[d] = seedId[i]
    THEN parseInt(capturedDigits(seedId))
    ELSE NullLawId

\* backfill:691-693
hasProvisionText(seed) == seed.provisions > 0

\* a selection that looks at the id only
isTarget_AnyProvisions(seed, args) ==
    /\ parseLawId(seed.id) # NullLawId
    /\ ~(args.fromLawId # NullLimit /\ parseLawId(seed.id) < args.fromLawId)

\* backfill:713-719, the three "continue" of the selection
isTarget(seed, args) ==
    /\ parseLawId(seed.id) # NullLawId
    /\ ~(args.fromLawId # NullLimit /\ parseLawId(seed.id) < args.fromLawId)
    /\ ~hasProvisionText(seed)

\* backfill:709-720, const targets: the files that pass, in the order of their names
selectTargets(dir, args) ==
    SelectSeq([file \in 1..Len(dir) |-> [file |-> file, lawId |-> parseLawId(dir[file].id)]],
              LAMBDA target : isTarget(dir[target.file], args))

\* backfill:722, targets.slice(0, args.limit)
sliceLimit(found, args) ==
    IF args.limit # NullLimit THEN SubSeq(found, 1, Min(args.limit, Len(found))) ELSE found

Seed(id, count) == [id |-> id, provisions |-> count, source |-> "seed"]

NoSeed == Seed(<<>>, 0)

NoTarget == [pc |-> "idle", file |-> 0, seed |-> NoSeed, lawViewError |-> FALSE]

NoTally == [candidates_total |-> 0, processed |-> 0, upgraded |-> 0, stillTextless |-> 0,
            fetchFailed |-> 0, failures |-> <<>>]

\* backfill:705-729, the selection of the targets, up to the start of the pool
SelectTargets ==
    /\ fillPc = "main"
    /\ fillPc' = "pool"
    /\ limited' = sliceLimit(selectTargets(seedDir, fillArgs), fillArgs)
    /\ tally' = [tally EXCEPT !.candidates_total = Len(selectTargets(seedDir, fillArgs))]
    /\ fworker' = [w \in Workers |-> [NoTarget EXCEPT !.pc = "next"]]
    /\ UNCHANGED <<fillArgs, seedDir, fillCursor, startDir, rewrites>>
    /\ UNCHANGED nonFillVars

\* backfill:804-813 and 731-744, a turn of the worker's loop: it takes the index
\* at the cursor and returns past the end; else processTarget reads the record
\* and requests the LawViewWord page
TakeTarget(w) ==
    /\ fillPc = "pool"
    /\ fworker[w].pc = "next"
    /\ fillCursor' = fillCursor + 1
    /\ IF fillCursor >= Len(limited)
       THEN fworker' = [fworker EXCEPT ![w] = [NoTarget EXCEPT !.pc = "returned"]]
       ELSE LET file == limited[fillCursor + 1].file IN
            fworker' = [fworker EXCEPT ![w] = [pc |-> "lawview", file |-> file,
                                                 seed |-> seedDir[file],
                                                 lawViewError |-> FALSE]]
    /\ UNCHANGED <<fillPc, fillArgs, seedDir, limited, tally, startDir, rewrites>>
    /\ UNCHANGED nonFillVars

\* a count that keeps no message of a failure
countOutcome_NoMessage(t, outcome, id) ==
    LET counted ==
          CASE outcome \in {"lawview", "lawarticles"} -> [t EXCEPT !.upgraded = @ + 1]
            [] outcome = "failed" -> [t EXCEPT !.fetchFailed = @ + 1]
            [] OTHER -> [t EXCEPT !.stillTextless = @ + 1] IN
    [counted EXCEPT !.processed = @ + 1]

\* backfill:766-797, the counters of one target
countOutcome(t, outcome, id) ==
    LET counted ==
          CASE outcome \in {"lawview", "lawarticles"} -> [t EXCEPT !.upgraded = @ + 1]
            [] outcome = "failed" ->
                 [t EXCEPT !.fetchFailed = @ + 1, !.failures = Append(@, id)]
            [] OTHER -> [t EXCEPT !.stillTextless = @ + 1] IN
    [counted EXCEPT !.processed = @ + 1]

\* backfill:766-797, the end of processTarget: the record read at its start is
\* written back with what was found, and the worker goes on with its loop
RewriteSeed(w, count, sourceUsed, failed) ==
    LET me == fworker[w]
        outcome == IF count > 0 THEN sourceUsed
                   ELSE IF failed THEN "failed" ELSE "textless" IN
    /\ seedDir' = [seedDir EXCEPT ![me.file] =
                      [me.seed EXCEPT !.provisions = count, !.source = outcome]]
    /\ rewrites' = [rewrites EXCEPT ![me.file] = @ + 1]
    /\ tally' = countOutcome(tally, outcome, me.seed.id)
    /\ fworker' = [fworker EXCEPT ![w] = [NoTarget EXCEPT !.pc = "next"]]

\* backfill:744-753, loadLawViewHtml settles: the page has provisions, or none,
\* or the load or the parser throws; without provisions LawArticles is tried
LawViewSettle(w) ==
    /\ fillPc = "pool"
    /\ fworker[w].pc = "lawview"
    /\ \E found \in {"provisions", "none", "error"} :
         IF found = "provisions"
         THEN RewriteSeed(w, 1, "lawview", FALSE)
         ELSE /\ fworker' = [fworker EXCEPT ![w].pc = "lawarticles",
                                            ![w].lawViewError = (found = "error")]
              /\ UNCHANGED <<seedDir, rewrites, tally>>
    /\ UNCHANGED <<fillPc, fillArgs, limited, fillCursor, startDir>>
    /\ UNCHANGED nonFillVars

\* backfill:755-797, parseLawViaLawArticles settles: provisions, or null, or it throws
LawArticlesSettle(w) ==
    /\ fillPc = "pool"
    /\ fworker[w].pc = "lawarticles"
    /\ \E found \in {"provisions", "null", "error"} :
         RewriteSeed(w, IF found = "provisions" THEN 1 ELSE 0, "lawarticles",
                     fworker[w].lawViewError \/ found = "error")
    /\ UNCHANGED <<fillPc, fillArgs, limited, fillCursor, startDir>>
    /\ UNCHANGED nonFillVars

\* backfill:815-831, Promise.all of the workers resolves and the report is written
WriteReport ==
    /\ fillPc = "pool"
    /\ \A w \in Workers : fworker[w].pc = "returned"
    /\ fillPc' = "done"
    /\ UNCHANGED <<fillArgs, seedDir, limited, fillCursor, fworker, tally, startDir, rewrites>>
    /\ UNCHANGED nonFillVars

FillInit(start, options, directories) ==
    /\ fillPc = start
    /\ fillArgs \in options
    /\ seedDir \in directories
    /\ limited = <<>>
    /\ fillCursor = 0
    /\ fworker = [w \in Workers |-> NoTarget]
    /\ tally = NoTally
    /\ startDir = seedDir
    /\ rewrites = [file \in 1..Len(seedDir) |-> 0]

FillIdle == FillInit("idle", {[limit |-> NullLimit, fromLawId |-> NullLimit]}, {<<>>})

BackfillIdle == HtmlIdle /\ FillIdle

\* the subsystems modelled on their own, before they run
RestIdle ==
    /\ LegacyIdle /\ CacheIdle /\ TargetIdle /\ RerunIdle /\ DefIdle /\ LabelIdle /\ ArticlesIdle
    /\ BackfillIdle

\* the multi-corpus ingestion and its libraries, before they run
MainIdle == FetchIdle /\ CrawlIdle /\ ParseIdle /\ IngestIdle

(***************************************************************************)
(* Specifications                                                          *)
(***************************************************************************)
\* the workers call the exported functions concurrently; these call
\* fetchWithRetry(url, accept), so maxRetries is its default
Init ==
    FetchInit(DefaultMaxRetries, Callers) /\ CrawlIdle /\ ParseIdle /\ IngestIdle /\ RestIdle

\* fetchWithRetry for every value of its maxRetries parameter, one call at a time
InitRetry ==
    /\ \E m \in 0..MaxRetriesBound : FetchInit(m, {1})
    /\ CrawlIdle /\ ParseIdle /\ IngestIdle /\ RestIdle

Next ==
    \/ \E p \in Callers : Call(p)
    \/ \E p \in Callers : GateAdmit(p)
    \/ \E p \in Callers : TimerFire(p)
    \/ \E p \in Callers : DispatchFetch(p)
    \/ \E p \in Callers : FetchSettle(p)
    \/ \E p \in Callers : DispatchCurl(p)
    \/ \E p \in Callers : Resume(p)
    \/ Tick

Spec == Init /\ [][Next]_vars

SpecRetry == InitRetry /\ [][Next]_vars

\* the event loop runs every continuation that is ready and every timer that is
\* due, the clock goes on, and a request that was sent settles (fetch is given
\* AbortSignal.timeout(8000), curl --max-time 8); a worker need not call
Fairness ==
    /\ WF_vars(Tick)
    /\ \A p \in Callers :
          /\ WF_vars(GateAdmit(p))
          /\ WF_vars(TimerFire(p))
          /\ WF_vars(DispatchFetch(p))
          /\ WF_vars(FetchSettle(p))
          /\ WF_vars(DispatchCurl(p))
          /\ WF_vars(Resume(p))

\* the sets of workers that call, the others never do: none, one or two
\* concurrent callers (the workers are alike and are started in order)
CallingWorkers == {1..k : k \in 0..Min(2, NumCallers)}

InitLive ==
    /\ \E active \in CallingWorkers : FetchInit(DefaultMaxRetries, active)
    /\ CrawlIdle /\ ParseIdle /\ IngestIdle /\ RestIdle

SpecLive == InitLive /\ [][Next]_vars /\ Fairness

\* crawlLawIndex('ar', opts, opts.limit, skipReasons)
InitCrawl ==
    /\ FetchIdle /\ ParseIdle /\ IngestIdle /\ RestIdle
    /\ CrawlInit("discover", {NullLimit} \cup 1..MaxLimit)

NextCrawl ==
    \/ CrawlDiscover
    \/ CrawlFirstPage
    \/ CrawlNextPage

SpecCrawl == InitCrawl /\ [][NextCrawl]_vars

\* parseDocxLegislation(docxFilePath) for the documents of up to MaxParagraphs
\* paragraphs
InitParse ==
    /\ FetchIdle /\ CrawlIdle /\ IngestIdle /\ RestIdle
    /\ ParseInit("loop", SeqsUpTo(ParagraphTexts, MaxParagraphs))

NextParse ==
    \/ ParseParagraph
    \/ ParseFlush
    \/ DedupeProvision
    \/ ParseReturn

SpecParse == InitParse /\ [][NextParse]_vars

\* parseDocxLegislation on the documents of up to MaxLines lines around the
\* documented example
InitLines ==
    /\ FetchIdle /\ CrawlIdle /\ IngestIdle /\ RestIdle
    /\ ParseInit("loop", SeqsUpTo(ExampleLines, MaxLines))

SpecLines == InitLines /\ [][NextParse]_vars

\* main with each --corpus, with and without --ar-metadata-only
InitIngest ==
    FetchIdle /\ CrawlIdle /\ ParseIdle /\ IngestInit("main", Corpora) /\ RestIdle

NextIngest ==
    \/ MainStart
    \/ EnglishIndex
    \/ EnglishItem
    \/ EnglishReturn
    \/ ArabicCrawl
    \/ \E w \in Workers : WorkerTake(w)
    \/ \E w \in Workers : WorkerProcess(w)
    \/ ArabicReturn
    \/ MainFinish

SpecIngest == InitIngest /\ [][NextIngest]_vars

\* scripts/ingest.ts, main
InitLegacy ==
    /\ MainIdle /\ LegacyInit("index") /\ CacheIdle /\ TargetIdle /\ RerunIdle /\ DefIdle
    /\ LabelIdle /\ ArticlesIdle /\ BackfillIdle

NextLegacy ==
    \/ LegacyIndex
    \/ LegacyTarget
    \/ LegacyFinish

SpecLegacy == InitLegacy /\ [][NextLegacy]_vars

\* a sequence of up to MaxLoads loads, for every option and every cache directory
InitCache ==
    /\ MainIdle /\ LegacyIdle /\ TargetIdle
    /\ CacheInit("ready", CacheOptions, [CachePaths -> Contents \cup {Absent}])
    /\ RerunIdle /\ DefIdle /\ LabelIdle /\ ArticlesIdle /\ BackfillIdle

NextCache ==
    \/ LoadCall
    \/ LoadSettle

SpecCache == InitCache /\ [][NextCache]_vars

\* buildTargets on every catalogue of up to MaxCatalog laws (parseEnglishLawsList
\* returns one entry per table row, whatever the rows link to)
InitTargets ==
    /\ MainIdle /\ LegacyIdle /\ CacheIdle /\ RerunIdle /\ DefIdle /\ LabelIdle /\ ArticlesIdle /\ BackfillIdle
    /\ TargetInit("map", UNION {[1..n -> ListedLaws] : n \in 1..MaxCatalog})

NextTargets ==
    \/ BuildTarget
    \/ BuildReturn

SpecTargets == InitTargets /\ [][NextTargets]_vars

\* two runs of main --corpus ar without --refresh, with and without --skip-fetch,
\* for every cache directory (the English documents are not read)
InitRerun ==
    /\ MainIdle /\ LegacyIdle /\ TargetIdle
    /\ CacheInit("idle", {o \in CacheOptions : ~o.refresh},
                 {d \in [CachePaths -> Contents \cup {Absent}] : d["132016.docx"] = Absent})
    /\ RerunInit("crawl")
    /\ DefIdle /\ LabelIdle /\ ArticlesIdle /\ BackfillIdle

NextRerun ==
    \/ RerunCrawl
    \/ \E w \in Workers : RerunTake(w)
    \/ \E w \in Workers : RerunProcess(w)
    \/ RerunReturn
    \/ Rerun

SpecRerun == InitRerun /\ [][NextRerun]_vars

\* extractDefinitions on short documents of one or two provisions, and on
\* documents with about DefinitionCap terms
ShortContents == SeqsUpTo(Clauses, MaxClauses)

DefDocuments ==
    {<<DefProvision(section, content)>> : section \in {"1", "2"}, content \in ShortContents}
    \cup {<<DefProvision("1", c), DefProvision("2", d)>> :
             c, d \in {content \in ShortContents : Len(content) <= 1}}
    \cup {<<DefProvision("1", LongContent(n))>> :
             n \in {DefinitionCap - 1, DefinitionCap, DefinitionCap + MaxClauses}}
    \cup {<<DefProvision("1", LongContent(DefinitionCap - 1)),
            DefProvision("2", <<NumberedClause(DefinitionCap), NumberedClause(DefinitionCap + 1),
                                NumberedClause(DefinitionCap + 2)>>)>>}

InitDefinitions ==
    /\ MainIdle /\ LegacyIdle /\ CacheIdle /\ TargetIdle /\ RerunIdle /\ LabelIdle /\ ArticlesIdle /\ BackfillIdle
    /\ DefInit("loop", DefDocuments)

NextDefinitions ==
    \/ DefinitionExec
    \/ DefinitionsReturn

SpecDefinitions == InitDefinitions /\ [][NextDefinitions]_vars


\* the twenty digits of DIGIT_MAP
ForeignDigits == ArabicIndicDigits \cup ExtendedArabicIndicDigits

\* the keyword, a space and a number of up to MaxDigits Arabic-Indic or Extended
\* Arabic-Indic digits
NumberLabels ==
    {ArticleKeyword \o <<Space>> \o ds : ds \in SeqsUpTo(ForeignDigits, MaxDigits) \ {<<>>}}

\* labels of other shapes: other separators, markup, entities, the repeated mark,
\* ASCII digits, English labels, no number
OtherLabels ==
    { <<>>,
      ArticleKeyword,
      ArticleKeyword \o <<1635>>,
      ArticleKeyword \o <<NoBreakSpace>> \o <<1635>>,
      ArticleKeyword \o <<Space, Space>> \o <<1777, 1634>>,
      ArticleKeyword \o <<Space, 49, 50>>,
      ArticleKeyword \o <<Space, 1635, Space, Space>> \o RepeatedMark,
      ArticleKeyword \o <<Space, 1635, Space>> \o <<1605, 1606>>,
      <<60, 98, 62>> \o ArticleKeyword \o <<Space, 1785>> \o <<60, 47, 98, 62>>,
      ArticleKeyword \o <<38, 78, 66, 83, 80, 59>> \o <<1636>>,
      ArticleKeyword \o <<38, 35, 49, 54, 48, 59>> \o <<1636>>,
      <<60, 62>> \o ArticleKeyword \o <<Space, 1636>>,
      <<1605, 1575, 1583, 1577, Space, 1635, Space, 120>>,
      <<1583, 1610, 1576, 1575, 1580, 1577>>,
      ArticleWord \o <<Space, 53, 65>>,
      <<97, 114, 116, 105, 99, 108, 101, Space, 1781>>,
      ArticleWord \o <<Space, 40, 53, 41>> }

InitLabel ==
    /\ MainIdle /\ LegacyIdle /\ CacheIdle /\ TargetIdle /\ RerunIdle /\ DefIdle
    /\ ArticlesIdle /\ BackfillIdle
    /\ LabelInit("call", NumberLabels \cup OtherLabels)

NextLabel == LabelParse

SpecLabel == InitLabel /\ [][NextLabel]_vars


\* the links of a law page: two article ids, labels with and without a number
ArticleLabels ==
    { ArticleKeyword \o <<Space, 49>>, ArticleKeyword \o <<Space, 1633>>,
      ArticleKeyword \o <<Space, 50>>, <<1583, 1610, 1576, 1575, 1580, 1577>> }

ArticlePages ==
    SeqsUpTo({ArticleLink(articleId, text) : articleId \in 101..(100 + MaxRefs),
                                             text \in ArticleLabels}, MaxRefs)

\* what parsing an article page gives: nothing, or a provision with its own number
ArticleParses == {NoProvision, [found |-> TRUE, section |-> <<49>>]}

InitArticles ==
    /\ MainIdle /\ LegacyIdle /\ CacheIdle /\ TargetIdle /\ RerunIdle /\ DefIdle /\ LabelIdle
    /\ ArticlesInit("extract", ArticlePages)
    /\ BackfillIdle

NextArticles ==
    \/ ArticlesExtract
    \/ \E provision \in ArticleParses : ArticleTurn(provision)
    \/ ArticlesReturn

SpecArticles == InitArticles /\ [][NextArticles]_vars

\* either script, started with any of the flags over any cache directory, then
\* up to MaxLoads loads
InitLoaders ==
    /\ MainIdle /\ LegacyIdle /\ TargetIdle
    /\ \E script \in {"ingest", "backfill"} :
         /\ CacheInit(IF script = "ingest" THEN "args" ELSE "idle",
                      {[skipFetch |-> FALSE, refresh |-> FALSE]},
                      IF script = "ingest" THEN [CachePaths -> Contents \cup {Absent}]
                      ELSE {[path \in CachePaths |-> Absent]})
         /\ HtmlInit(IF script = "backfill" THEN "args" ELSE "idle", SUBSET Flags,
                     IF script = "backfill" THEN [HtmlPaths -> Bodies \cup {MissingFile}]
                     ELSE {[cachePath \in HtmlPaths |-> MissingFile]})
    /\ RerunIdle /\ DefIdle /\ LabelIdle /\ ArticlesIdle /\ FillIdle

NextLoaders ==
    \/ IngestParseArgs
    \/ LoadCall
    \/ LoadSettle
    \/ BackfillParseArgs
    \/ HtmlCall
    \/ HtmlSettle

SpecLoaders == InitLoaders /\ [][NextLoaders]_vars

\* the records a seed file may hold: laws 2 and 10 without provisions, law 10
\* with provisions, a curated record, and an id that is no law id
SeedRecords ==
    {Seed(<<"qa-law-", "2">>, 0), Seed(<<"qa-law-", "1", "0">>, 0),
     Seed(<<"qa-law-", "1", "0">>, 1), Seed(<<"qa-pdp-law">>, 0),
     Seed(<<"qa-law-", "2", "a">>, 0)}

\* the backfill over every directory of MaxSeeds records, with and without
\* --limit and --from-law-id
InitBackfill ==
    /\ MainIdle /\ LegacyIdle /\ CacheIdle /\ TargetIdle /\ RerunIdle /\ DefIdle /\ LabelIdle
    /\ ArticlesIdle /\ HtmlIdle
    /\ FillInit("main", [limit : {NullLimit} \cup 1..MaxLimit, fromLawId : {NullLimit, 10}],
                [1..MaxSeeds -> SeedRecords])

NextBackfill ==
    \/ SelectTargets
    \/ \E w \in Workers : TakeTarget(w)
    \/ \E w \in Workers : LawViewSettle(w)
    \/ \E w \in Workers : LawArticlesSettle(w)
    \/ WriteReport

SpecBackfill == InitBackfill /\ [][NextBackfill]_vars

(***************************************************************************)
(* Properties of the fetcher                                               *)
(***************************************************************************)

\* C1: across all concurrent callers of the exported functions, no two outbound
\* dispatches start less than MIN_DELAY_MS apart.
C1_Pacing == minGap >= MIN_DELAY_MS

\* two dispatches exactly MIN_DELAY_MS apart: the gate made the second one wait
C1_Witness ==
    /\ minGap = MIN_DELAY_MS
    /\ \E p \in Callers : pc[p] = "inflight" /\ wakeAt[p] = now

\* C2: fetchTextFromUrl never returns a body that isAntiBotChallengeHtml classifies
\* as a challenge page.
C2_NoChallengeReturned ==
    \A p \in Callers :
        (pc[p] = "done" /\ call[p].fn = "text" /\ result[p].ok)
            => ~isAntiBotChallengeHtml(result[p].body)

\* a text fetch that saw a challenge on its first transport and returned the
\* body of the other one
C2_Witness ==
    \E p \in Callers :
        /\ pc[p] = "done" /\ call[p].fn = "text" /\ result[p].ok
        /\ call[p].lawView /\ hist[p].lastCurl = "challenge" /\ hist[p].fetches = 1

RetryableTags == {"429", "503", "network"}

\* C3: a request that ends on the primary transport in 429, 5xx or a transient
\* transport error is retried on that transport after a wait of 2^(attempt+1)
\* seconds, before the fetch escalates or fails.
C3_RetriedOnPrimary ==
    \A p \in Callers :
        (hist[p].fetches = 1 /\ hist[p].lastFetch \in RetryableTags)
            => /\ loop[p].transport = "fetch"
               /\ pc[p] \in {"sleep_backoff", "dispatch"}
               /\ hist[p].waits = <<backoffMs(0)>>

PrimaryReason(p) ==
    IF hist[p].lastFetch = "tls" THEN TlsMessages
    ELSE {"anti-bot challenge via fetch"}

AlternateReason(p) ==
    IF hist[p].lastCurl = "challenge" THEN {"anti-bot challenge via curl"}
    ELSE IF hist[p].lastCurl = "transient" THEN CurlTimeout
    ELSE CurlHttpError

\* C4: in fetchTextFromUrl, when the primary transport fails with a TLS trust
\* failure or returns a challenge page the request goes through curl, and if
\* curl yields a challenge or an error too, the fetch fails with an error that
\* carries both the primary and the alternate failure reason.
C4_BothReasons ==
    \A p \in Callers :
        (/\ pc[p] = "done" /\ call[p].fn = "text"
         /\ hist[p].lastFetch \in {"tls", "challenge"})
            => /\ hist[p].curls >= 1
               /\ hist[p].lastCurl \in {"challenge", "transient", "failed"}
                     => /\ ~result[p].ok
                        /\ PrimaryReason(p) \subseteq result[p].error
                        /\ AlternateReason(p) \subseteq result[p].error

\* C5: a TLS verification failure on the primary transport is never retried on
\* the primary transport, for every value of maxRetries: no backoff sleep and no
\* further primary dispatch follow it.
C5_TlsNotRetried ==
    \A p \in Callers :
        hist[p].lastFetch = "tls"
            => /\ ~(loop[p].transport = "fetch"
                    /\ pc[p] \in {"sleep_backoff", "await_previous", "dispatch",
                                  "inflight"})
               /\ hist[p].fetches = Len(hist[p].waits) + 1

\* a TLS failure on the first attempt of a call that had retries left
C5_Witness ==
    \E p \in Callers :
        /\ maxRetries[p] > 0
        /\ hist[p].lastFetch = "tls" /\ hist[p].fetches = 1
        /\ pc[p] = "done"

\* the callers that have been let through "await previous" and have not called
\* release() yet
HoldsGate(p) ==
    /\ pc[p] \in {"await_previous", "sleep_gate"}
    /\ gate[p].previous \in resolved
    /\ gate[p].release \notin resolved

\* the callers whose request is about to be sent or is in flight
Requesting(p) == pc[p] \in {"dispatch", "inflight"}

\* C25: the gate is released before the request is sent: no caller whose request
\* is being sent or is in flight holds the gate, and at most one caller holds it.
C25_GateNotHeldInFlight ==
    /\ \A p \in Callers : Requesting(p) => gate[p].release \in resolved
    /\ \A p, q \in Callers : (HoldsGate(p) /\ HoldsGate(q)) => p = q

\* a later caller has been admitted and has dispatched while the request of an
\* earlier caller is still in flight
C25_Witness ==
    \E p, q \in Callers :
        /\ gate[p].release < gate[q].release
        /\ pc[p] = "inflight" /\ pc[q] = "inflight"

\* C26: the callers are admitted in the order in which they called
\* enforceRateLimit: the promise a caller releases is resolved only after the
\* promises of all the callers that entered before it.
C26_FifoAdmission ==
    \A id \in resolved : \A earlier \in 0..id : earlier \in resolved

\* one caller admitted and sleeping inside the gate, the next one queued behind it
C26_Witness ==
    \E p, q \in Callers :
        /\ pc[p] = "sleep_gate"
        /\ pc[q] = "await_previous"
        /\ gate[q].previous = gate[p].release

\* C28: the minimum delay between two consecutive dispatches is the 1.2 seconds
\* of the module documentation.
C28_DocumentedDelay == minGap >= DocumentedDelayMs

\* C29: a response that is not OK and is neither 429 nor 5xx ends fetchWithRetry:
\* no backoff sleep and no further primary dispatch follow it, for every value
\* of maxRetries.
C29_OtherStatusNotRetried ==
    \A p \in Callers :
        hist[p].lastFetch = "404"
            => /\ ~(loop[p].transport = "fetch"
                    /\ pc[p] \in {"sleep_backoff", "await_previous", "dispatch",
                                  "inflight"})
               /\ hist[p].fetches = Len(hist[p].waits) + 1

\* C30: a text fetch goes to curl only after the primary transport has failed
\* with a TLS trust failure or has returned a challenge page.
C30_PrimaryFirst ==
    \A p \in Callers :
        (call[p].fn = "text" /\ loop[p].transport = "curl")
            => hist[p].lastFetch \in {"tls", "challenge"}

\* C31: fetchBinaryFromUrl uses curl only after fetch failed with a TLS
\* verification error; any other failure of fetch is thrown to the caller and a
\* response of fetch is returned, in both cases without a curl dispatch.
C31_BinaryFallbackOnlyOnTls ==
    \A p \in Callers :
        call[p].fn = "binary" =>
            /\ (loop[p].transport = "curl" \/ hist[p].curls > 0) => hist[p].lastFetch = "tls"
            /\ (pc[p] = "done" /\ hist[p].lastFetch \in {"404", "429", "503", "network"})
                  => ~result[p].ok /\ hist[p].curls = 0
            /\ (pc[p] = "done" /\ hist[p].lastFetch \in {"200", "challenge"})
                  => result[p].ok /\ hist[p].curls = 0

\* a binary fetch that failed on TLS verification and got its bytes from curl
C31_Witness ==
    \E p \in Callers :
        /\ call[p].fn = "binary" /\ pc[p] = "done"
        /\ hist[p].lastFetch = "tls" /\ hist[p].curls = 1 /\ result[p].ok

\* caller p is inside enforceRateLimit
InGate(p) == pc[p] \in {"await_previous", "sleep_gate"}

\* C37: every call of enforceRateLimit returns, whatever the interleaving of the
\* callers: a caller inside enforceRateLimit gets out of it with its release()
\* called, so the caller behind it is not blocked for ever.
C37_GateLiveness ==
    \A p \in Callers : InGate(p) ~> (~InGate(p) /\ gate[p].release \in resolved)

\* caller 2 entered the gate behind caller 1, waited for it, and has passed
C37_Witness ==
    /\ pc[1] # "finished"
    /\ gate[2].previous = gate[1].release
    /\ gate[1].release # 0
    /\ gate[2].release \in resolved
    /\ pc[2] \in {"dispatch", "inflight"}

(***************************************************************************)
(* Properties of the catalog crawl                                         *)
(***************************************************************************)
ObservedOf(id) == {o \in observed : o.law_id = id}

\* C7: after any sequence of observations, the entry stored for a law id has
\* the longest title seen for that id and the earliest year seen for it.
C7_LongestTitleEarliestYear ==
    \A i \in DOMAIN byLawId :
        LET e == byLawId[i]
            obs == ObservedOf(e.law_id) IN
        /\ \E o \in obs : o.title = e.title
        /\ \A o \in obs : Len(o.title) <= Len(e.title)
        /\ \E o \in obs : o.year = e.year
        /\ \A o \in obs : e.year <= o.year

\* law 7 listed as 'Law A (Amended)' under 2021 and as 'Law A' under 2019 is
\* stored with the title of the one and the year of the other
C7_Witness ==
    /\ [law_id |-> <<7>>, title |-> "Law A (Amended)", year |-> 2021] \in observed
    /\ [law_id |-> <<7>>, title |-> "Law A", year |-> 2019] \in observed
    /\ \E i \in DOMAIN byLawId :
          byLawId[i] = [law_id |-> <<7>>, title |-> "Law A (Amended)", year |-> 2019]

\* C8: the returned catalog has pairwise distinct law ids, holds exactly the
\* merged entries, and is in ascending order of the numeric value of the id.
C8_DistinctAscending ==
    cpc = "done" =>
        /\ \A i, j \in DOMAIN laws :
              i < j => /\ laws[i].law_id # laws[j].law_id
                       /\ parseInt(laws[i].law_id) <= parseInt(laws[j].law_id)
        /\ Len(laws) = Len(byLawId)
        /\ {laws[i] : i \in DOMAIN laws} = {byLawId[i] : i \in DOMAIN byLawId}

\* a catalog of three laws discovered in another order than the returned one
C8_Witness ==
    /\ cpc = "done"
    /\ Len(laws) >= 3
    /\ laws # byLawId

Attempted == fetched \cup failedPages

\* C9 as stated: when listing pages fail, every other page of every year is
\* still fetched.
C9_AllOtherPagesFetched ==
    (cpc = "done" /\ limit = NullLimit) =>
        \A i \in DOMAIN years : \A p \in 1..portalPages[years[i]] :
            <<years[i], p>> \notin failedPages => <<years[i], p>> \in fetched

\* C9 amended: a failed listing page is recorded and never aborts the crawl,
\* which still returns the merged catalog; without a limit every year is
\* visited, the later pages of a year are all fetched or recorded as failed
\* when its page 1 loaded, and none of them is requested when its page 1 failed.
C9_FailureRecordedCrawlGoesOn ==
    /\ years # <<>> => cpc # "failed"
    /\ failedPages = {skipReasons[i] : i \in DOMAIN skipReasons}
    /\ fetched \cap failedPages = {}
    /\ (cpc = "done" /\ limit = NullLimit) =>
          /\ \A o \in observed : Has(laws, o.law_id)
          /\ \A i \in DOMAIN years :
                LET y == years[i]
                    later == {<<y, p>> : p \in 2..portalPages[y]} IN
                /\ <<y, 1>> \in Attempted
                /\ <<y, 1>> \in fetched => later \subseteq Attempted
                /\ <<y, 1>> \in failedPages => later \cap Attempted = {}

\* page 2 of a year failed, its page 3 and the next year were still fetched,
\* and a catalog came back
C9_Witness ==
    /\ cpc = "done"
    /\ limit = NullLimit
    /\ \E i \in DOMAIN years :
          /\ <<years[i], 2>> \in failedPages
          /\ <<years[i], 3>> \in fetched
          /\ i < Len(years)
          /\ <<years[i + 1], 1>> \in fetched
    /\ laws # <<>>

\* C38: with a limit L the Map never holds more than L entries during the crawl
\* (a listing with a new id is dropped once L are held), and the returned
\* catalog has at most L entries.
C38_CatalogWithinLimit ==
    limit # NullLimit =>
        /\ Len(byLawId) <= limit
        /\ cpc = "done" => Len(laws) <= limit

\* a crawl with limit 2 that saw listings of three laws and returned two
C38_Witness ==
    /\ cpc = "done" /\ limit = 2
    /\ Cardinality({o.law_id : o \in observed}) >= 3
    /\ Len(laws) = 2

(***************************************************************************)
(* Properties of the DOCX parser                                           *)
(***************************************************************************)

\* C6: the provisions returned by parseDocxLegislation are unique by
\* provision_ref, each is one of the spans parsed, and of the spans with one ref
\* the retained one has the longest content.
C6_UniqueByRefLongest ==
    ppc = "done" =>
        /\ \A a, b \in DOMAIN deduped :
              a < b => deduped[a].provision_ref # deduped[b].provision_ref
        /\ \A a \in DOMAIN deduped : \E k \in DOMAIN provisions : provisions[k] = deduped[a]
        /\ \A k \in DOMAIN provisions : \E a \in DOMAIN deduped :
              /\ deduped[a].provision_ref = provisions[k].provision_ref
              /\ Len(deduped[a].content) >= Len(provisions[k].content)

\* two spans with one ref, the later one longer and retained
C6_Witness ==
    /\ ppc = "done"
    /\ \E k, l \in DOMAIN provisions :
          /\ k < l
          /\ provisions[k].provision_ref = provisions[l].provision_ref
          /\ Len(provisions[k].content) < Len(provisions[l].content)
          /\ \E a \in DOMAIN deduped : deduped[a] = provisions[l]

\* the lines after the first at which matchArticleHeading finds no heading
PlainAfterFirst ==
    \A i \in 2..Len(paragraphs) : matchArticleHeading(paragraphs, i).section = NullSection

\* C22: a single-line heading 'Article (N)' followed by lines L1..Lk (k >= 1)
\* none of which starts a heading yields exactly one provision, with section N
\* and the lines joined by line breaks as content; the documented example
\* yields section '5' with its second line as content.
C22_HeadingThenLines ==
    (/\ ppc = "done"
     /\ Len(paragraphs) >= 2
     /\ paragraphs[1] \in {"Article (1)", "Article (5)"}
     /\ PlainAfterFirst)
        => /\ Len(deduped) = 1
           /\ deduped[1].section = articleRegex(paragraphs[1]).section
           /\ deduped[1].content = join(Tail(paragraphs))
           /\ paragraphs = <<"Article (5)", "Whoever violates this law shall be penalized.">>
                => /\ deduped[1].section = "5"
                   /\ deduped[1].content = "Whoever violates this law shall be penalized."

\* the documented example has been parsed
C22_Witness ==
    /\ ppc = "done"
    /\ paragraphs = <<"Article (5)", "Whoever violates this law shall be penalized.">>
    /\ Len(deduped) = 1
    /\ deduped[1].section = "5"


\* no section is open: the state SCANNING
Scanning == ppc = "loop" /\ currentSection = NullSection

\* the loop is at a line that is not a heading
AtPlainLine ==
    /\ ppc = "loop" /\ paraIdx <= Len(paragraphs)
    /\ matchArticleHeading(paragraphs, paraIdx).section = NullSection

\* a step of the loop over a line that is not a heading: the line is dropped
\* while scanning and is put at the end of the buffer of the open section
\* otherwise
PlainLineStep ==
    (AtPlainLine /\ paraIdx' # paraIdx) =>
        /\ provisions' = provisions
        /\ currentSection' = currentSection
        /\ currentLines' = IF Scanning THEN <<>>
                           ELSE Append(currentLines, paragraphs[paraIdx])

\* the step at the end of the input: the buffer of the open section, when it
\* has text, becomes the content of one more provision
EndOfInputStep ==
    (ppc = "loop" /\ ppc' = "dedupe") =>
        IF currentSection # NullSection /\ join(currentLines) # ""
        THEN /\ Len(provisions') = Len(provisions) + 1
             /\ SubSeq(provisions', 1, Len(provisions)) = provisions
             /\ provisions'[Len(provisions')].section = currentSection
             /\ provisions'[Len(provisions')].content = join(currentLines)
        ELSE provisions' = provisions

\* C32: lines before the first matched heading are discarded (while no section
\* is open the buffer is empty and no provision exists before the first heading,
\* so a document without a heading gives no provision); once a section is open
\* every non-heading line is appended to its buffer in input order, and the
\* final buffer is flushed at the end of the input.
C32_ScanningDiscards ==
    /\ [](Scanning => currentLines = <<>>)
    /\ []((\A i \in 1..(paraIdx - 1) : i <= Len(paragraphs)
              => matchArticleHeading(paragraphs, i).section = NullSection)
            => provisions = <<>> \/ ppc \notin {"loop"})
    /\ []((ppc = "done" /\ \A i \in DOMAIN paragraphs :
                              matchArticleHeading(paragraphs, i).section = NullSection)
            => deduped = <<>>)
    /\ [][PlainLineStep /\ EndOfInputStep]_vars

\* a document with a line of front matter, a heading and a line of text: the
\* provision holds the line of text only
C32_Witness ==
    /\ ppc = "done"
    /\ paragraphs = <<"More text of the article", "Article (1)", "Text">>
    /\ Len(deduped) = 1
    /\ deduped[1].content = "Text"

(***************************************************************************)
(* Properties of the record-building stage                                 *)
(***************************************************************************)

\* C10: every catalog entry of either corpus whose source was loaded and parsed
\* has a record on disk when main is done; an entry parsed into zero provisions
\* has one with empty provisions.
C10_RecordForEveryEntry ==
    ipc = "done" =>
        \A r \in reached : \E f \in seedFiles :
            /\ f.corpus = r[1]
            /\ f.entry = r[2]
            /\ f.provisions = r[3]

EnFiles == {f \in seedFiles : f.corpus = "en"}
ArFiles == {f \in seedFiles : f.corpus = "ar"}
FilesOf(files, entry) == {f \in files : f.entry = entry}
SkipsOf(corpus, entry) == {k \in ingestSkips : k[1] = corpus /\ k[2] = entry}

\* C11: an English entry whose DOCX and whose fallback page both failed still has
\* a record, with empty provisions, when main is done.
C11_RecordWhenBothSourcesFail ==
    ipc = "done" =>
        \A c \in chain :
            <<"en", c.entry, "fallback_failed">> \in ingestSkips =>
                \E f \in FilesOf(EnFiles, c.entry) : f.provisions = 0

\* C12: at the end of a run the English corpus has written + skipped = listed
\* laws and one record per entry that was not skipped, the Arabic corpus has
\* written = discovered laws and one record per law; no two records share an
\* index and the records on disk number seedIndex - 1.
C12_RecordsMatchEntries ==
    ipc \in {"done", "failed"} =>
        /\ enStats.written + enStats.skipped = listedLaws
        /\ Cardinality(EnFiles) = enStats.written
        /\ \A e \in 1..listedLaws :
              Cardinality(FilesOf(EnFiles, e)) = (IF SkipsOf("en", e) = {} THEN 1 ELSE 0)
        /\ arStats.written = arLaws
        /\ \A e \in 1..arLaws : Cardinality(FilesOf(ArFiles, e)) = 1
        /\ Cardinality(ArFiles) = arLaws
        /\ \A f, g \in seedFiles : f.index = g.index => f = g
        /\ Cardinality(seedFiles) = seedIndex - 1

\* both corpora ran, English laws were written and skipped, Arabic laws written
C12_Witness ==
    /\ ipc = "done"
    /\ opts.corpus = "all"
    /\ enStats.written >= 1
    /\ enStats.skipped >= 1
    /\ arLaws >= 2

\* where ingestArabicCorpus was told to start numbering
StartIndex == IF ipc \in {"ar_crawl", "ar_pool"} THEN seedIndex ELSE seedIndex - arLaws

\* C14: a law whose fetch or parse failed is recorded in skipReasons and keeps
\* its own (metadata-only) record; every law processed has the record of its own
\* outcome whatever became of the others; once the pool is through every law of
\* the catalog has its record, and once the English loop is through every listed
\* law was dealt with.
C14_FailureStaysLocal ==
    /\ \A r \in reached :
          r[1] = "ar" => \E f \in FilesOf(ArFiles, r[2]) : f.provisions = r[3]
    /\ \A k \in ingestSkips :
          k[1] = "ar" => \E f \in FilesOf(ArFiles, k[2]) : f.provisions = 0
    /\ arStats.fetchFailed = Cardinality({k \in ingestSkips : k[1] = "ar"})
    /\ (\A w \in Workers : wpc[w] = "returned") =>
          \A e \in 1..arLaws : Cardinality(FilesOf(ArFiles, e)) = 1
    /\ ipc \in {"ar_crawl", "ar_pool", "finish", "done"} =>
          \A e \in 1..listedLaws : \E c \in chain : c.entry = e

\* the page of law 1 could not be fetched; law 2 has its text all the same
C14_Witness ==
    /\ ipc = "done"
    /\ <<"ar", 1, "fetch_failed">> \in ingestSkips
    /\ \E f \in FilesOf(ArFiles, 1) : f.provisions = 0
    /\ \E f \in FilesOf(ArFiles, 2) : f.provisions > 0

\* C15: the record of the catalog entry at position i is written under
\* startIndex + i, in whatever order the workers complete.
C15_IndexByPosition ==
    \A f \in ArFiles : f.index = StartIndex + (f.entry - 1)

\* the second law of the catalog completed before the first
C15_Witness ==
    /\ ipc = "ar_pool"
    /\ FilesOf(ArFiles, 2) # {}
    /\ FilesOf(ArFiles, 1) = {}

Loading == {w \in Workers : wpc[w] = "load"}

\* C16: every index below the cursor and within the catalog is held by exactly
\* one worker or has been processed exactly once, no index beyond the cursor has
\* been touched, and when all workers have returned all laws are processed.
C16_ClaimedExactlyOnce ==
    /\ \A v, w \in Loading : v # w => windex[v] # windex[w]
    /\ \A w \in Loading : windex[w] < arLaws /\ FilesOf(ArFiles, windex[w] + 1) = {}
    /\ \A e \in 1..arLaws :
          e - 1 < cursor <=>
              (\E w \in Loading : windex[w] = e - 1) \/ FilesOf(ArFiles, e) # {}
    /\ arStats.completed = Cardinality({f.entry : f \in ArFiles})
    /\ (\A w \in Workers : wpc[w] = "returned") => arStats.completed = arLaws

\* two workers wait for the pages of two different laws
C16_Witness ==
    /\ ipc = "ar_pool"
    /\ \E v, w \in Loading : v # w
    /\ cursor = 2

\* C19: the fallback page of an English entry is requested exactly when its DOCX
\* yielded no provisions (through an error or a parse with zero provisions) and
\* a fallback is configured for it.
C19_AlternateExactlyWhenNeeded ==
    \A c \in chain :
        c.alternate <=> (c.primary \in {"error", "zero"} /\ c.configured)

\* every sub-pipeline of the run and every worker of the pool has finished
PipelinesFinished ==
    /\ RunsEnglish => itemIdx > listedLaws
    /\ RunsArabic => /\ \A w \in Workers : wpc[w] = "returned"
                     /\ arStats.completed = arLaws

C13_OnlyZeroOutputIsFatal ==
    (legacyPc = "failed" /\ fatal # "index") => written = 0

(***************************************************************************)
(* Properties of the cache                                                 *)
(***************************************************************************)

\* C17: a load whose cache file exists, without --refresh, requests nothing,
\* returns and leaves the file as it is; a load requests the url only when the
\* file is missing or --refresh is set (and never under --skip-fetch); when the
\* request succeeds its body is what the cache file holds and what a text load
\* returns; no load touches the file of another path.
C17_ReadThroughCache ==
    load.path # "" =>
        LET existed == load.before[load.path] # Absent IN
        /\ (existed /\ ~cacheOpts.refresh) =>
              /\ ~load.dispatched
              /\ loadPc = "returned"
              /\ cacheFiles = load.before
              /\ load.returned = Loaded(load.fn, load.before[load.path])
        /\ load.dispatched => (~existed \/ cacheOpts.refresh) /\ ~cacheOpts.skipFetch
        /\ (load.dispatched /\ loadPc = "returned") =>
              /\ cacheFiles[load.path] = load.fetched
              /\ load.returned = Loaded(load.fn, load.fetched)
        /\ (load.dispatched /\ loadPc # "returned") => cacheFiles = load.before
        /\ \A path \in CachePaths \ {load.path} : cacheFiles[path] = load.before[path]

\* a page missed and stored by one load is a hit of the next
C17_Witness ==
    /\ loadPc = "returned"
    /\ loadCount = 2
    /\ ~cacheOpts.skipFetch
    /\ load.fn = "text"
    /\ ~load.dispatched
    /\ load.returned = "long page"

(***************************************************************************)
(* Properties of buildTargets                                              *)
(***************************************************************************)

\* C20: the ids buildTargets assigns to the entries of one catalogue, curated
\* and generated alike, are pairwise distinct.
C20_DistinctIds ==
    \A i, j \in 1..Len(builtIds) : i # j => builtIds[i] # builtIds[j]

(***************************************************************************)
(* Properties of a repeated run                                            *)
(***************************************************************************)
SecondRunEnded == rerunPc = "ended" /\ runNo = 2

\* every page the runs load is in the cache directory they start from
FullCache ==
    /\ startCache[ListingPath] # Absent
    /\ \A lawId \in 1..lawsListed(startCache[ListingPath]) :
          startCache[lawViewCachePath(lawId)] # Absent

C21_CappedDistinctTerms ==
    /\ Len(definitions) <= DefinitionCap
    /\ Cardinality({lowerCase(definitions[i].term) : i \in DOMAIN definitions})
          = Len(definitions)

\* a document with more than 50 terms, one of them twice in different case: 50
\* definitions are returned before the content is read to its end
C21_Witness ==
    /\ defPc = "done"
    /\ Len(definitions) = DefinitionCap
    /\ Len(defProvisions[1].content) > DefinitionCap
    /\ lastIndex <= Len(defProvisions[1].content)
    /\ "term 1" \in seen

\* C23: the content
\* "'Personal Data' means any information relating to an identified individual."
\* yields the definition with term 'Personal Data' and definition
\* 'any information relating to an identified individual.'
C23_DocumentedExample ==
    (/\ defPc = "done"
     /\ Len(defProvisions) = 1
     /\ contentText(defProvisions[1].content) =
           "'Personal Data' means any information relating to an identified individual.")
        => /\ Len(definitions) = 1
           /\ definitions[1].term = "Personal Data"
           /\ definitions[1].definition =
                 "any information relating to an identified individual."

(***************************************************************************)
(* Properties of parseSectionFromLawArticleLabel                           *)
(***************************************************************************)
\* the value of one of the twenty digits
digitValue(c) == IF c \in ArabicIndicDigits THEN c - 1632 ELSE c - 1776

\* the label is the keyword, white space and a number written in the twenty digits
IsKeywordAndNumber(value) ==
    LET k == Len(ArticleKeyword)
        ws == run(value, k + 1, WhiteSpace) IN
    /\ Len(value) > k + ws
    /\ StartsAt(value, 1, ArticleKeyword)
    /\ ws >= 1
    /\ \A i \in (k + ws + 1)..Len(value) : value[i] \in ForeignDigits

\* the number of such a label, written in ASCII digits
AsciiNumber(value) ==
    LET from == Len(ArticleKeyword) + run(value, Len(ArticleKeyword) + 1, WhiteSpace) IN
    [i \in 1..(Len(value) - from) |-> 48 + digitValue(value[from + i])]

\* C24: for a label made of the Arabic article keyword, white space and a number
\* written in Arabic-Indic or Extended Arabic-Indic digits,
\* parseSectionFromLawArticleLabel returns the same number in ASCII digits; and
\* normaliseDigits keeps the length of its argument and changes no character
\* other than those twenty digits.
C24_DigitNormalisation ==
    labelPc = "returned" =>
        /\ IsKeywordAndNumber(label) => labelSection = AsciiNumber(label)
        /\ Len(clean) = Len(spaced)
        /\ \A i \in 1..Len(spaced) : clean[i] # spaced[i] => spaced[i] \in ForeignDigits

\* the label "المادة ٣۹" (an Arabic-Indic 3, an Extended Arabic-Indic 9) gave "39"
C24_Witness ==
    /\ labelPc = "returned"
    /\ label = ArticleKeyword \o <<Space, 1635, 1785>>
    /\ clean = ArticleKeyword \o <<Space, 51, 57>>
    /\ labelSection = <<51, 57>>

(***************************************************************************)
(* Properties of parseLawViaLawArticles                                    *)
(***************************************************************************)
\* C27: in every record produced, no two provisions of the same document have
\* the same section value.
C27_DistinctSections ==
    \A i, j \in DOMAIN artProvisions :
        i # j => artProvisions[i].section # artProvisions[j].section

\* C39: at the end of a run the indices of the record files written by the
\* English and the Arabic sub-pipeline are pairwise distinct and are exactly
\* 1..N, and seed_files_written in the manifest is N, the number of record files
\* written (English written + Arabic written).
C39_ContiguousIndices ==
    ipc = "done" =>
        LET N == Cardinality(seedFiles) IN
        /\ \A f, g \in seedFiles : f.index = g.index => f = g
        /\ {f.index : f \in seedFiles} = 1..N
        /\ reports.seed_files_written = N
        /\ N = enStats.written + arStats.written

\* a run that wrote one English law as record 1 and two Arabic laws as records
\* 2 and 3, after skipping an English law
C39_Witness ==
    /\ ipc = "done" /\ opts.corpus = "all"
    /\ enStats.written = 1 /\ enStats.skipped = 1 /\ arStats.written = 2
    /\ {f.index : f \in EnFiles} = {1}
    /\ {f.index : f \in ArFiles} = {2, 3}
    /\ reports.seed_files_written = 3

(***************************************************************************)
(* Properties of loadHtmlWithCache and of --skip-fetch                     *)
(***************************************************************************)

\* C35: loadHtmlWithCache returns no body that is an anti-bot challenge page
\* and writes none to the cache (a load writes at most its own file); a cached
\* challenge page is requested again, except under skipFetch, where the call
\* throws without a request.
C35_NoChallengeServedOrStored ==
    htmlLoad.path # "" =>
        LET cached == htmlLoad.before[htmlLoad.path]
            challenge == cached # MissingFile /\ isAntiBotChallengeHtml(cached) IN
        /\ htmlPc = "returned" =>
              /\ htmlLoad.returned # NullBody
              /\ ~isAntiBotChallengeHtml(htmlLoad.returned)
        /\ \A cachePath \in HtmlPaths :
              \/ htmlCache[cachePath] = htmlLoad.before[cachePath]
              \/ /\ cachePath = htmlLoad.path
                 /\ htmlCache[cachePath] = htmlLoad.fetched
                 /\ ~isAntiBotChallengeHtml(htmlCache[cachePath])
        /\ (challenge /\ ~htmlArgs.skipFetch) => htmlLoad.dispatched
        /\ (challenge /\ htmlArgs.skipFetch) => ~htmlLoad.dispatched /\ htmlPc = "thrown"

\* a cached challenge page is requested again and replaced by the page fetched
C35_Witness ==
    /\ htmlPc = "returned"
    /\ ~htmlArgs.refresh
    /\ htmlLoad.path = lawPageCachePath(1)
    /\ htmlLoad.before[htmlLoad.path] = ChallengeBody
    /\ htmlLoad.dispatched
    /\ htmlCache[htmlLoad.path] = ContentBody
    /\ htmlLoad.returned = ContentBody

\* C36: with skipFetch set no load of loadTextWithCache, loadBinaryWithCache or
\* loadHtmlWithCache requests anything or writes a file: a file that is in the
\* cache (for loadHtmlWithCache: and is no challenge page) is what the call
\* returns, and otherwise the call throws; skipFetch and refresh are never set
\* together, since parseArgs throws when given both flags.
C36_SkipFetchNeverDispatches ==
    /\ ~(cacheOpts.skipFetch /\ cacheOpts.refresh)
    /\ ~(htmlArgs.skipFetch /\ htmlArgs.refresh)
    /\ Flags \subseteq argv =>
          /\ loadPc \in {"idle", "args", "rejected"}
          /\ htmlPc \in {"idle", "args", "rejected"}
    /\ cacheOpts.skipFetch =>
          /\ loadPc # "fetching"
          /\ load.path # "" =>
                /\ ~load.dispatched
                /\ cacheFiles = load.before
                /\ IF load.before[load.path] # Absent
                   THEN /\ loadPc = "returned"
                        /\ load.returned = Loaded(load.fn, load.before[load.path])
                   ELSE loadPc = "thrown"
    /\ htmlArgs.skipFetch =>
          /\ htmlPc # "fetching"
          /\ htmlLoad.path # "" =>
                LET cached == htmlLoad.before[htmlLoad.path] IN
                /\ ~htmlLoad.dispatched
                /\ htmlCache = htmlLoad.before
                /\ IF cached # MissingFile /\ ~isAntiBotChallengeHtml(cached)
                   THEN htmlPc = "returned" /\ htmlLoad.returned = cached
                   ELSE htmlPc = "thrown"

\* under --skip-fetch a page and then a page that is not in the cache
C36_Witness ==
    /\ argv = {"--skip-fetch"}
    /\ htmlArgs.skipFetch
    /\ htmlCount = 2
    /\ htmlPc = "thrown"
    /\ htmlLoad.before[htmlLoad.path] = MissingFile
    /\ \E cachePath \in HtmlPaths : htmlCache[cachePath] = ContentBody

(***************************************************************************)
(* Properties of the backfill                                              *)
(***************************************************************************)
\* the id is qa-law- followed by one or more decimal digits
IsQaLawId(seedId) ==
    /\ Len(seedId) > 1
    /\ seedId[1] = "qa-law-"
    /\ \A i \in 2..Len(seedId) : seedId[i] \in {DecimalDigits[d] : d \in 1..10}

\* the record of the file was, before the run, a qa-law record without
\* provisions and not below --from-law-id
Candidate(file) ==
    /\ IsQaLawId(startDir[file].id)
    /\ startDir[file].provisions = 0
    /\ fillArgs.fromLawId # NullLimit => parseInt(capturedDigits(startDir[file].id)) >= fillArgs.fromLawId

\* fewer than --limit candidates come before the file
WithinLimit(file) ==
    fillArgs.limit # NullLimit =>
        Cardinality({other \in 1..(file - 1) : Candidate(other)}) < fillArgs.limit

\* C34: at every moment of a backfill run, a seed file that has been written,
\* or whose record differs from the record before the run, held before the run
\* a record with a qa-law-<digits> id and no provisions, not below
\* --from-law-id and among the first --limit such records.
C34_OnlyTargetsRewritten ==
    \A file \in 1..Len(seedDir) :
        (rewrites[file] > 0 \/ seedDir[file] # startDir[file]) =>
            Candidate(file) /\ WithinLimit(file)

\* a run over law 10 with provisions and law 2 without: the second record is
\* rewritten with the provisions found and the first is left as it was
C34_Witness ==
    /\ fillPc = "done"
    /\ startDir[1] = Seed(<<"qa-law-", "1", "0">>, 1)
    /\ startDir[2] = Seed(<<"qa-law-", "2">>, 0)
    /\ rewrites[1] = 0 /\ rewrites[2] = 1
    /\ seedDir[1] = startDir[1]
    /\ seedDir[2].provisions = 1

\* C40: throughout a backfill run processed = upgraded + stillTextless +
\* fetchFailed and failures has fetchFailed entries; when the report is written
\* processed is the number of planned targets, the planned targets are
\* distinct files, and each of them has been written exactly once.
C40_CountersAddUp ==
    /\ tally.processed = tally.upgraded + tally.stillTextless + tally.fetchFailed
    /\ Len(tally.failures) = tally.fetchFailed
    /\ fillPc = "done" =>
          /\ tally.processed = Len(limited)
          /\ \A i, j \in 1..Len(limited) : i # j => limited[i].file # limited[j].file
          /\ \A i \in 1..Len(limited) : rewrites[limited[i].file] = 1

\* two targets taken by two workers: one is upgraded, the other fails and
\* finishes first
C40_Witness ==
    /\ fillPc = "done"
    /\ Len(limited) = 2
    /\ tally.upgraded = 1 /\ tally.fetchFailed = 1
    /\ tally.failures = <<startDir[2].id>>
    /\ seedDir[1].source = "lawarticles"

====
